---- MODULE Spec2Model ----
(***************************************************************************)
(* Report assembly engine of backend/app_full.py: template resolution,     *)
(* template upload, and export_report_docx: derived-field augmentation,    *)
(* placeholder map, placeholder substitution, findings table and images.   *)
(*                                                                         *)
(* Text is a sequence of one-character strings.  A literal of the source   *)
(* that is never inspected character by character (a directory name, a     *)
(* fixed file-name suffix, a message fragment) is one element of such a    *)
(* sequence.  A path is a sequence of components (os.path.join appends).   *)
(***************************************************************************)
EXTENDS Integers, Sequences, FiniteSets, TLC

VARIABLES
    fs,        \* template store: the set of paths at which a file exists
    call,      \* the last resolver/upload call with its arguments and outcome
    slug_in,   \* argument of the slug functions
    slug_out,  \* their results
    request,   \* the last /export-report-docx payload
    response,  \* its outcome: augmented record, placeholder map, document
    template_doc,  \* the document held by the template files
    applied,   \* the last direct application of a document function
    uploads,   \* the upload requests that overlap, each with its position
    files      \* the bytes of the files those uploads have opened

vars == <<fs, call, slug_in, slug_out, request, response, template_doc, applied,
          uploads, files>>

----------------------------------------------------------------------------
(* Bounds *)

MaxNameLen == 1
MaxSlugInputLen == 3
MaxFindings == 4

----------------------------------------------------------------------------
(* Characters and text *)

LowerAlpha == <<"a","b","c","d","e","f","g","h","i","j","k","l","m",
                "n","o","p","q","r","s","t","u","v","w","x","y","z">>
UpperAlpha == <<"A","B","C","D","E","F","G","H","I","J","K","L","M",
                "N","O","P","Q","R","S","T","U","V","W","X","Y","Z">>
DigitChars == <<"0","1","2","3","4","5","6","7","8","9">>

Range(f) == {f[i] : i \in DOMAIN f}

IndexOf(seq, c) == CHOOSE i \in DOMAIN seq : seq[i] = c

\* str.lower() / str.upper(), character by character
lower_char(c) == IF c \in Range(UpperAlpha) THEN LowerAlpha[IndexOf(UpperAlpha, c)] ELSE c
upper_char(c) == IF c \in Range(LowerAlpha) THEN UpperAlpha[IndexOf(LowerAlpha, c)] ELSE c
lower(s) == [i \in DOMAIN s |-> lower_char(s[i])]
upper(s) == [i \in DOMAIN s |-> upper_char(s[i])]

\* the character class [a-z0-9]
IsSlugChar(c) == c \in Range(LowerAlpha) \cup Range(DigitChars)

\* re.sub(r"[^a-z0-9]+", "_", s): every maximal run outside the class becomes one "_"
RECURSIVE re_sub_from(_, _)
re_sub_from(s, i) ==
    IF i > Len(s) THEN <<>>
    ELSE IF IsSlugChar(s[i]) THEN <<s[i]>> \o re_sub_from(s, i + 1)
    ELSE IF i > 1 /\ ~IsSlugChar(s[i - 1]) THEN re_sub_from(s, i + 1)
    ELSE <<"_">> \o re_sub_from(s, i + 1)

re_sub(s) == re_sub_from(s, 1)

\* str.strip("_")
RECURSIVE lstrip(_)
lstrip(s) == IF s # <<>> /\ Head(s) = "_" THEN lstrip(Tail(s)) ELSE s

RECURSIVE rstrip(_)
rstrip(s) == IF s # <<>> /\ s[Len(s)] = "_" THEN rstrip(SubSeq(s, 1, Len(s) - 1)) ELSE s

strip(s) == rstrip(lstrip(s))

\* "sub in text"
Contains(text, sub) ==
    \/ sub = <<>>
    \/ \E i \in 1..(Len(text) - Len(sub) + 1) :
           /\ text[i] = sub[1]
           /\ SubSeq(text, i, i + Len(sub) - 1) = sub

EndsWith(text, suffix) ==
    /\ Len(suffix) <= Len(text)
    /\ SubSeq(text, Len(text) - Len(suffix) + 1, Len(text)) = suffix

\* all texts over an alphabet up to a length
RECURSIVE TextsOfLen(_, _)
TextsOfLen(alphabet, n) ==
    IF n = 0 THEN {<<>>}
    ELSE {<<c>> \o t : c \in alphabet, t \in TextsOfLen(alphabet, n - 1)}

Texts(alphabet, n) == UNION {TextsOfLen(alphabet, k) : k \in 0..n}

----------------------------------------------------------------------------
(* Python values: None and text *)

None == [t |-> "none"]
Str(s) == [t |-> "str", v |-> s]

\* (x or "") for an Optional[str]
or_empty(x) == IF x.t = "str" THEN x.v ELSE <<>>

----------------------------------------------------------------------------
(* Slugs *)

\* a slug function that leaves the separators at the ends
slugify_trade_unstripped(trade) == re_sub(lower(or_empty(trade)))

slugify_trade(trade) == strip(re_sub(lower(or_empty(trade))))

DefaultSlug == <<"d","e","f","a","u","l","t">>

\* a slug function that forgets to lower-case its argument
slugify_company_no_lower(company) ==
    LET s == strip(re_sub(or_empty(company)))
    IN  IF s # <<>> THEN s ELSE DefaultSlug

slugify_company(company) ==
    LET s == strip(re_sub(lower(or_empty(company))))
    IN  IF s # <<>> THEN s ELSE DefaultSlug

----------------------------------------------------------------------------
(* Paths *)

join(dir, parts) == dir \o parts

BASE_DIR == << <<"<backend>">> >>
TEMPLATE_DIR == join(BASE_DIR, << <<"templates">> >>)
COMPANY_TEMPLATE_DIR == join(TEMPLATE_DIR, << <<"companies">> >>)
GLOBAL_TEMPLATE_DIR == join(TEMPLATE_DIR, << <<"global">> >>)
DEFAULT_TEMPLATE_PATH == join(TEMPLATE_DIR, << <<"default_report_template.docx">> >>)

\* the text of a path: its components separated by "/"
RECURSIVE PathText(_)
PathText(p) ==
    IF p = <<>> THEN <<>>
    ELSE IF Len(p) = 1 THEN p[1]
    ELSE p[1] \o <<"/">> \o PathText(Tail(p))

exists(path) == path \in fs

----------------------------------------------------------------------------
(* get_template_for_trade *)

company_project_template(company_slug) ==
    join(COMPANY_TEMPLATE_DIR, <<company_slug, <<"Project">>, <<"report.docx">> >>)

global_candidate(trade_slug) ==
    join(GLOBAL_TEMPLATE_DIR, <<trade_slug \o <<"_report_template.docx">> >>)

NoTemplateDetail ==
    <<"No DOCX template found. Please upload a template or add ",
      "default_report_template.docx", ".">>

Ok(path) == [status |-> "ok", path |-> path]
HTTPException(code, detail) == [status |-> "error", status_code |-> code, detail |-> detail]

IsGiven(company) == company.t = "str" /\ company.v # <<>>

\* a resolver that looks at the global template before the company's
get_template_for_trade_global_first(trade, company) ==
    LET trade_slug == slugify_trade(trade)
        company_slug == IF IsGiven(company) THEN slugify_company(company) ELSE <<>>
    IN  IF exists(global_candidate(trade_slug))
            THEN Ok(global_candidate(trade_slug))
        ELSE IF company_slug # <<>> /\ exists(company_project_template(company_slug))
            THEN Ok(company_project_template(company_slug))
        ELSE IF exists(DEFAULT_TEMPLATE_PATH)
            THEN Ok(DEFAULT_TEMPLATE_PATH)
        ELSE HTTPException(500, NoTemplateDetail)

\* a resolver that falls back to the default path without looking for the file
get_template_for_trade_blind_default(trade, company) ==
    LET trade_slug == slugify_trade(trade)
        company_slug == IF IsGiven(company) THEN slugify_company(company) ELSE <<>>
    IN  IF company_slug # <<>> /\ exists(company_project_template(company_slug))
            THEN Ok(company_project_template(company_slug))
        ELSE IF exists(global_candidate(trade_slug))
            THEN Ok(global_candidate(trade_slug))
        ELSE Ok(DEFAULT_TEMPLATE_PATH)

\* a resolver whose error message names the global candidate it looked for
get_template_for_trade_names_candidate(trade, company) ==
    LET trade_slug == slugify_trade(trade)
        company_slug == IF IsGiven(company) THEN slugify_company(company) ELSE <<>>
    IN  IF company_slug # <<>> /\ exists(company_project_template(company_slug))
            THEN Ok(company_project_template(company_slug))
        ELSE IF exists(global_candidate(trade_slug))
            THEN Ok(global_candidate(trade_slug))
        ELSE IF exists(DEFAULT_TEMPLATE_PATH)
            THEN Ok(DEFAULT_TEMPLATE_PATH)
        ELSE HTTPException(500, <<"No DOCX template found. Please add ">>
                                \o PathText(global_candidate(trade_slug))
                                \o <<" or ", "default_report_template.docx", ".">>)

get_template_for_trade(trade, company) ==
    LET trade_slug == slugify_trade(trade)
        company_slug == IF IsGiven(company) THEN slugify_company(company) ELSE <<>>
    IN  IF company_slug # <<>> /\ exists(company_project_template(company_slug))
            THEN Ok(company_project_template(company_slug))
        ELSE IF exists(global_candidate(trade_slug))
            THEN Ok(global_candidate(trade_slug))
        ELSE IF exists(DEFAULT_TEMPLATE_PATH)
            THEN Ok(DEFAULT_TEMPLATE_PATH)
        ELSE HTTPException(500, NoTemplateDetail)

----------------------------------------------------------------------------
(* upload_report_template *)

DocxSuffix == <<".","d","o","c","x">>

upload_dest_path(company, trade) ==
    join(join(COMPANY_TEMPLATE_DIR, <<slugify_company(company)>>),
         <<slugify_trade(trade) \o <<"_report_template.docx">> >>)

\* lines 763-774: the handler from its start to `contents = await file.read()`,
\* where it is suspended; pc names the statement it runs next
upload_until_await(company, trade, file_name, contents) ==
    IF ~EndsWith(lower(file_name), DocxSuffix)
    THEN [pc |-> "done", dest |-> <<>>, contents |-> contents, wrote |-> 0,
          result |-> HTTPException(400, <<"Only .docx templates are supported.">>)]
    ELSE [pc |-> "open", dest |-> upload_dest_path(Str(company), Str(trade)),
          contents |-> contents, wrote |-> 0, result |-> [t |-> "none"]]

\* one statement of lines 775-778 on the files: open(dest_path, "wb") empties
\* the file; f.write(contents), through a descriptor of its own at offset 0,
\* overwrites the first bytes of what the file holds; then the handler returns.
\* turn numbers the writes
upload_statement(u, fls, turn) ==
    IF u.pc = "open"
    THEN [u |-> [u EXCEPT !.pc = "write"],
          files |-> (u.dest :> <<>>) @@ fls]
    ELSE [u |-> [u EXCEPT !.pc = "done", !.wrote = turn,
                          !.result = [status |-> "ok", path |-> u.dest]],
          files |-> (u.dest :> (u.contents
                                \o SubSeq(fls[u.dest], Len(u.contents) + 1,
                                          Len(fls[u.dest]))))
                    @@ fls]

\* a handler that gives way to the others after every statement
upload_after_await_preempted(u, fls, turn) == upload_statement(u, fls, turn)

\* the handler from the end of the await to its return: lines 775-778 hold no
\* await, and the event loop runs a coroutine up to its next await without
\* running another
upload_after_await(u, fls, turn) ==
    LET opened == upload_statement(u, fls, turn)
    IN  IF u.pc = "open" THEN upload_statement(opened.u, opened.files, turn)
        ELSE opened

----------------------------------------------------------------------------
(* Inputs of the resolver specification *)

NameChars == {"a", "X", "-"}
Names == Texts(NameChars, MaxNameLen)

TradeArgs == {None} \cup {Str(n) : n \in Names}
CompanyArgs == {None} \cup {Str(n) : n \in Names}

\* the company and trade names for which uploads arrive
UploadCompanies == {<<"X">>, <<"-">>}
UploadTrades == {<<"X">>}

SeedPaths ==
    {DEFAULT_TEMPLATE_PATH,
     global_candidate(slugify_trade(Str(<<"X">>))),
     company_project_template(slugify_company(Str(<<"X">>)))}

UploadFilenames ==
    {<<"t", ".", "d", "o", "c", "x">>,
     <<"T", ".", "D", "O", "C", "X">>,
     <<"t", ".", "p", "d", "f">>}

NoCall == [op |-> "none", trade |-> None, company |-> None, result |-> None]
NoSlugs == [trade |-> <<>>, company |-> <<>>, done |-> FALSE]
NoRequest == [t |-> "none"]
NoApplied == [op |-> "none"]
\* a document with no paragraph and no table
EmptyDocument == [paragraphs |-> <<>>, tables |-> <<>>]
NoResponse == [status |-> "none"]
\* no file opened by an upload
NoFiles == [p \in {} |-> <<>>]

----------------------------------------------------------------------------
(* Resolver and upload: actions *)

Resolve ==
    \E trade \in TradeArgs, company \in CompanyArgs :
        /\ call' = [op |-> "resolve", trade |-> trade, company |-> company,
                    result |-> get_template_for_trade(trade, company)]
        /\ UNCHANGED <<fs, slug_in, slug_out, request, response, template_doc, applied, uploads, files>>

upload_report_template ==
    \E company \in UploadCompanies, trade \in UploadTrades, filename \in UploadFilenames :
        IF ~EndsWith(lower(filename), DocxSuffix)
        THEN /\ call' = [op |-> "upload", trade |-> Str(trade), company |-> Str(company),
                         result |-> HTTPException(400, <<"Only .docx templates are supported.">>)]
             /\ UNCHANGED <<fs, slug_in, slug_out, request, response, template_doc, applied, uploads, files>>
        ELSE LET dest_path == upload_dest_path(Str(company), Str(trade))
             IN  /\ fs' = fs \cup {dest_path}
                 /\ call' = [op |-> "upload", trade |-> Str(trade), company |-> Str(company),
                             result |-> Ok(dest_path)]
                 /\ UNCHANGED <<slug_in, slug_out, request, response, template_doc, applied, uploads, files>>

Init ==
    /\ fs \in SUBSET SeedPaths
    /\ call = NoCall
    /\ slug_in = None
    /\ slug_out = NoSlugs
    /\ request = NoRequest
    /\ response = NoResponse
    /\ template_doc = EmptyDocument
    /\ applied = NoApplied
    /\ uploads = <<>>
    /\ files = NoFiles

Next == Resolve \/ upload_report_template

Spec == Init /\ [][Next]_vars

----------------------------------------------------------------------------
(* Slug functions on their own: every input text up to MaxSlugInputLen *)

SlugAlphabet == {"a", "B", "7", "-", "_"}
SlugInputs == {None} \cup {Str(s) : s \in Texts(SlugAlphabet, MaxSlugInputLen)}

Slugify ==
    /\ ~slug_out.done
    /\ slug_out' = [trade |-> slugify_trade(slug_in), company |-> slugify_company(slug_in),
                    done |-> TRUE]
    /\ UNCHANGED <<fs, call, slug_in, request, response, template_doc, applied, uploads, files>>

InitSlug ==
    /\ fs = {}
    /\ call = NoCall
    /\ slug_in \in SlugInputs
    /\ slug_out = NoSlugs
    /\ request = NoRequest
    /\ response = NoResponse
    /\ template_doc = EmptyDocument
    /\ applied = NoApplied
    /\ uploads = <<>>
    /\ files = NoFiles

NextSlug == Slugify

SpecSlug == InitSlug /\ [][NextSlug]_vars

----------------------------------------------------------------------------
(* Python values of the report record: a mapping is a function on its keys, *)
(* a key may also be held with the tag "absent" (the key is missing)        *)

Absent == [t |-> "absent"]
List(l) == [t |-> "list", v |-> l]
EmptyDict == <<>>

\* d.get(k, default)
get(d, k, default) ==
    IF k \in DOMAIN d /\ d[k].t # "absent" THEN d[k] ELSE default

\* bool(x)
Truthy(x) == x.t \in {"str", "list"} /\ x.v # <<>>

\* x or y
Or(x, y) == IF Truthy(x) THEN x ELSE y

\* str(n) for n >= 0
RECURSIVE str(_)
str(n) ==
    IF n < 10 THEN <<DigitChars[n + 1]>>
    ELSE str(n \div 10) \o <<DigitChars[(n % 10) + 1]>>

ACCEPTED == <<"A", "C", "C", "E", "P", "T", "E", "D">>
GeneralTrade == <<"g", "e", "n", "e", "r", "a", "l">>

----------------------------------------------------------------------------
(* export_report_docx: derived fields *)

\* a derivation that numbers an entry by the position of its finding
RECURSIVE derive_deficiencies_by_position(_, _, _)
derive_deficiencies_by_position(detailed_findings, i, defs) ==
    IF i > Len(detailed_findings) THEN defs
    ELSE LET df == detailed_findings[i]
             status == upper(or_empty(get(df, "status", None)))
         IN  IF status # <<>> /\ status # ACCEPTED
             THEN derive_deficiencies_by_position(detailed_findings, i + 1,
                      Append(defs,
                             [no |-> Str(str(i)),
                              text |-> Or(get(df, "observation", Str(<<>>)),
                                          get(df, "item", Str(<<>>)))]))
             ELSE derive_deficiencies_by_position(detailed_findings, i + 1, defs)

\* the loop of lines 806-816; i is the position in detailed_findings
RECURSIVE derive_deficiencies_from(_, _, _)
derive_deficiencies_from(detailed_findings, i, defs) ==
    IF i > Len(detailed_findings) THEN defs
    ELSE LET df == detailed_findings[i]
             status == upper(or_empty(get(df, "status", None)))
         IN  IF status # <<>> /\ status # ACCEPTED
             THEN derive_deficiencies_from(detailed_findings, i + 1,
                      Append(defs,
                             [no |-> Str(str(Len(defs) + 1)),
                              text |-> Or(get(df, "observation", Str(<<>>)),
                                          get(df, "item", Str(<<>>)))]))
             ELSE derive_deficiencies_from(detailed_findings, i + 1, defs)

derive_deficiencies(detailed_findings) ==
    derive_deficiencies_from(detailed_findings, 1, <<>>)

\* a step that derives the deficiencies whatever the caller supplied
augment_deficiencies_always(rd, detailed_findings) ==
    [rd EXCEPT !["deficiencies"] = List(derive_deficiencies(detailed_findings))]

\* lines 803-817
augment_deficiencies(rd, detailed_findings) ==
    IF get(rd, "deficiencies", None).t = "none"
    THEN [rd EXCEPT !["deficiencies"] = List(derive_deficiencies(detailed_findings))]
    ELSE rd

\* a step that writes the summary whatever the caller supplied
augment_summary_always(rd, detailed_findings) ==
    [rd EXCEPT !["deficiencies_summary"] =
         IF Truthy(get(rd, "deficiencies", None))
         THEN Str(<<"Deficiencies noted">>)
         ELSE Str(<<"No deficiencies noted">>)]

\* a step that decides the summary from the findings instead of the deficiencies
augment_summary_from_findings(rd, detailed_findings) ==
    IF ~Truthy(get(rd, "deficiencies_summary", None))
    THEN [rd EXCEPT !["deficiencies_summary"] =
              IF detailed_findings # <<>>
              THEN Str(<<"Deficiencies noted">>)
              ELSE Str(<<"No deficiencies noted">>)]
    ELSE rd

\* lines 819-823; defs is rd["deficiencies"] after the step above
augment_summary(rd, detailed_findings) ==
    IF ~Truthy(get(rd, "deficiencies_summary", None))
    THEN [rd EXCEPT !["deficiencies_summary"] =
              IF Truthy(get(rd, "deficiencies", None))
              THEN Str(<<"Deficiencies noted">>)
              ELSE Str(<<"No deficiencies noted">>)]
    ELSE rd

\* an observation row that copies the status as given
derive_observation_raw_status(rd, df) ==
    [general_location |-> get(rd, "area_inspected", Str(<<>>)),
     specific_location |-> get(df, "item", Str(<<>>)),
     system_or_element |-> get(df, "observation", Str(<<>>)),
     su |-> Str(or_empty(get(df, "status", None))),
     remarks |-> get(df, "remarks", Str(<<>>))]

\* lines 830-838
derive_observation(rd, df) ==
    [general_location |-> get(rd, "area_inspected", Str(<<>>)),
     specific_location |-> get(df, "item", Str(<<>>)),
     system_or_element |-> get(df, "observation", Str(<<>>)),
     su |-> Str(upper(or_empty(get(df, "status", None)))),
     remarks |-> get(df, "remarks", Str(<<>>))]

\* a step that adds the derived rows to the rows the record has
augment_observations_appending(rd, detailed_findings) ==
    LET obs_list == get(rd, "observations", None)
        given == IF obs_list.t = "none" THEN <<>> ELSE obs_list.v
    IN  IF Len(detailed_findings) > 0 \/ Len(given) = 0
        THEN [rd EXCEPT !["observations"] =
                  List(given \o [i \in 1..Len(detailed_findings) |->
                                     derive_observation(rd, detailed_findings[i])])]
        ELSE rd

\* lines 825-841
augment_observations(rd, detailed_findings) ==
    LET obs_list == get(rd, "observations", None)
    IN  IF obs_list.t = "none" \/ Len(obs_list.v) = 0
        THEN [rd EXCEPT !["observations"] =
                  List([i \in 1..Len(detailed_findings) |->
                            derive_observation(rd, detailed_findings[i])])]
        ELSE rd

----------------------------------------------------------------------------
(* export_report_docx: the placeholder map, in insertion order *)

PHOTO_CAP == 3
DEF_CAP == 5
PREV_DEF_CAP == 3
OBS_CAP == 15

\* "{{NAME}}"
scalar_token(name) == <<"{{", name, "}}">>

\* f"{{{{PHOTO_{i}_TITLE}}}}"
indexed_token(prefix, i, suffix) == <<"{{", prefix>> \o str(i) \o <<suffix, "}}">>

\* token name, record key; lines 843-875
SCALARS ==
    << <<"PROJECT_NAME", "project_name">>,
       <<"INSPECTION_DATE", "inspection_date">>,
       <<"TRADE", "trade">>,
       <<"AREA_INSPECTED", "area_inspected">>,
       <<"REFERENCE_DETAILS", "reference_details">>,
       <<"OVERALL_SUMMARY", "overall_summary">>,
       <<"CONCLUSION", "conclusion">>,
       <<"PROJECT_NUMBER", "project_number">>,
       <<"CLIENT_NAME", "client_name">>,
       <<"BIS_NUMBER", "bis_number">>,
       <<"GC_CM", "gc_cm">>,
       <<"ARCHITECT", "architect">>,
       <<"ENGINEER", "engineer">>,
       <<"TIME_IN", "time_in">>,
       <<"TIME_OUT", "time_out">>,
       <<"REPORT_NUMBER", "report_number">>,
       <<"INSPECTORS", "inspectors">>,
       <<"REPORTED_TO", "reported_to">>,
       <<"INSPECTIONS_LIST", "inspections_list">>,
       <<"PERSONS_PRESENT", "persons_present">>,
       <<"SITE_REMARKS", "site_remarks">>,
       <<"DEFICIENCIES_SUMMARY", "deficiencies_summary">>,
       <<"REINSPECTION_REQUIRED", "reinspection_required">>,
       <<"TOTAL_ATTACHMENTS", "total_attachments">>,
       <<"ATTACHMENTS_LIST", "attachments_list">>,
       <<"OTHER_NOTES", "other_notes">>,
       <<"REFERENCE_DRAWING", "reference_drawing">>,
       <<"REFERENCE_DETAIL", "reference_detail">> >>

PHOTO_ATTRS == << <<"_TITLE", "title">>, <<"_NOTE", "note">> >>
DEF_ATTRS == << <<"_NO", "no">>, <<"_TEXT", "text">> >>
PREV_DEF_ATTRS == << <<"_NO", "no">>, <<"_RESOLUTION", "resolution">> >>
OBS_ATTRS ==
    << <<"_GENERAL", "general_location">>,
       <<"_SPECIFIC", "specific_location">>,
       <<"_SYSTEM", "system_or_element">>,
       <<"_SU", "su">>,
       <<"_REMARKS", "remarks">> >>

scalar_pairs(rd) ==
    [j \in 1..Len(SCALARS) |->
        <<scalar_token(SCALARS[j][1]), get(rd, SCALARS[j][2], Str(<<>>))>>]

\* one turn of an indexed loop: d = items[i - 1] if i - 1 < len(items) else {}
slot_pairs(prefix, attrs, items, i) ==
    LET d == IF i - 1 < Len(items) THEN items[i] ELSE EmptyDict
    IN  [j \in 1..Len(attrs) |->
            <<indexed_token(prefix, i, attrs[j][1]), get(d, attrs[j][2], Str(<<>>))>>]

\* indexed loops that run one slot past the cap
RECURSIVE group_pairs_past_cap(_, _, _, _, _)
group_pairs_past_cap(prefix, attrs, items, i, cap) ==
    IF i > cap + 1 THEN <<>>
    ELSE slot_pairs(prefix, attrs, items, i)
         \o group_pairs_past_cap(prefix, attrs, items, i + 1, cap)

\* for i in range(1, cap + 1)
RECURSIVE group_pairs(_, _, _, _, _)
group_pairs(prefix, attrs, items, i, cap) ==
    IF i > cap THEN <<>>
    ELSE slot_pairs(prefix, attrs, items, i) \o group_pairs(prefix, attrs, items, i + 1, cap)

list_or_empty(rd, key) == Or(get(rd, key, List(<<>>)), List(<<>>)).v

\* lines 843-906
build_replacements(rd) ==
    scalar_pairs(rd)
    \o group_pairs("PHOTO_", PHOTO_ATTRS, list_or_empty(rd, "photos"), 1, PHOTO_CAP)
    \o group_pairs("DEF_", DEF_ATTRS, list_or_empty(rd, "deficiencies"), 1, DEF_CAP)
    \o group_pairs("PREV_DEF_", PREV_DEF_ATTRS,
                   list_or_empty(rd, "previous_deficiencies_resolved"), 1, PREV_DEF_CAP)
    \o group_pairs("OBS_", OBS_ATTRS, list_or_empty(rd, "observations"), 1, OBS_CAP)

\* replacements[token]
lookup(replacements, token) ==
    replacements[CHOOSE j \in DOMAIN replacements : replacements[j][1] = token][2]

----------------------------------------------------------------------------
(* The document: python-docx paragraphs, runs and tables                    *)
(*                                                                         *)
(* A run carries a text, its character formatting (an opaque name) and its *)
(* inline content: none, a page break or a picture.  A paragraph is its    *)
(* runs; a cell is its paragraphs; a row is its cells; a table has a       *)
(* column count and rows; a document has its body paragraphs and tables.   *)

Run(text, fmt) == [text |-> text, fmt |-> fmt, inline |-> <<>>]
Paragraph(runs) == [runs |-> runs]
Cell(paragraphs) == paragraphs
Table(cols, rows) == [cols |-> cols, rows |-> rows]
Document(paragraphs, tables) == [paragraphs |-> paragraphs, tables |-> tables]

\* sep.join(texts)
RECURSIVE join_with(_, _)
join_with(sep, texts) ==
    IF Len(texts) = 0 THEN <<>>
    ELSE IF Len(texts) = 1 THEN texts[1]
    ELSE texts[1] \o sep \o join_with(sep, Tail(texts))

\* "".join(run.text for run in p.runs), which is also p.text
paragraph_text(p) == join_with(<<>>, [j \in 1..Len(p.runs) |-> p.runs[j].text])

\* cell.text: the paragraphs of the cell joined by a newline
cell_text(cell) == join_with(<<"\n">>, [j \in 1..Len(cell) |-> paragraph_text(cell[j])])

----------------------------------------------------------------------------
(* replace_placeholders_everywhere *)

\* text.replace(old, new): every occurrence, left to right, not overlapping
RECURSIVE str_replace(_, _, _)
str_replace(text, old, new) ==
    IF Len(text) < Len(old) THEN text
    ELSE IF SubSeq(text, 1, Len(old)) = old
         THEN new \o str_replace(SubSeq(text, Len(old) + 1, Len(text)), old, new)
         ELSE <<Head(text)>> \o str_replace(Tail(text), old, new)

\* one turn of "for old, new in replacements.items()": str.replace raises
\* TypeError when new is not a str
replace_step(state, pair) ==
    IF state.raised \/ ~Contains(state.full_text, pair[1]) THEN state
    ELSE IF pair[2].t # "str" THEN [state EXCEPT !.raised = TRUE]
    ELSE [raised |-> FALSE,
          full_text |-> str_replace(state.full_text, pair[1], pair[2].v),
          changed |-> TRUE]

\* the turns for the pairs lo..hi, in order
RECURSIVE replace_loop(_, _, _, _)
replace_loop(state, replacements, lo, hi) ==
    IF lo > hi THEN state
    ELSE IF lo = hi THEN replace_step(state, replacements[lo])
    ELSE LET mid == (lo + hi) \div 2
             first == replace_loop(state, replacements, lo, mid)
         IN  IF first.raised THEN first
             ELSE replace_loop(first, replacements, mid + 1, hi)

\* the loop of _replace_in_paragraph on the text of p
replaced_text(p, replacements) ==
    replace_loop([raised |-> FALSE, full_text |-> paragraph_text(p), changed |-> FALSE],
                 replacements, 1, Len(replacements))

\* a replacement that looks at each run on its own
_replace_in_runs(p, replacements) ==
    LET rs == [j \in 1..Len(p.runs) |->
                  replace_loop([raised |-> FALSE, full_text |-> p.runs[j].text,
                                changed |-> FALSE],
                               replacements, 1, Len(replacements))]
    IN  [raised |-> \E j \in 1..Len(rs) : rs[j].raised,
         p |-> Paragraph([j \in 1..Len(p.runs) |->
                   [p.runs[j] EXCEPT !.text = rs[j].full_text]])]

\* _replace_in_paragraph(p): whether it raises, and the paragraph it leaves
_replace_in_paragraph(p, replacements) ==
    IF paragraph_text(p) = <<>> THEN [raised |-> FALSE, p |-> p]
    ELSE LET r == replaced_text(p, replacements)
         IN  IF r.raised THEN [raised |-> TRUE, p |-> p]
             ELSE IF r.changed /\ Len(p.runs) > 0
             THEN [raised |-> FALSE,
                   p |-> Paragraph([j \in 1..Len(p.runs) |->
                             [p.runs[j] EXCEPT
                                 !.text = IF j = 1 THEN r.full_text ELSE <<>>]])]
             ELSE [raised |-> FALSE, p |-> p]

\* the call on every paragraph of every cell of every row of a table
replace_in_table(table, replacements) ==
    [r \in 1..Len(table.rows) |->
        [c \in 1..Len(table.rows[r]) |->
            [k \in 1..Len(table.rows[r][c]) |->
                _replace_in_paragraph(table.rows[r][c][k], replacements)]]]

\* doc.paragraphs first, then doc.tables: whether some call raises (the
\* exception leaves the function), and the document when none does
replace_placeholders_everywhere(doc, replacements) ==
    LET ps == [j \in 1..Len(doc.paragraphs) |->
                  _replace_in_paragraph(doc.paragraphs[j], replacements)]
        ts == [t \in 1..Len(doc.tables) |-> replace_in_table(doc.tables[t], replacements)]
    IN  [raised |->
             \/ \E j \in 1..Len(ps) : ps[j].raised
             \/ \E t \in 1..Len(ts) : \E r \in 1..Len(ts[t]) :
                \E c \in 1..Len(ts[t][r]) : \E k \in 1..Len(ts[t][r][c]) :
                    ts[t][r][c][k].raised,
         doc |->
             Document([j \in 1..Len(ps) |-> ps[j].p],
                      [t \in 1..Len(ts) |->
                          [doc.tables[t] EXCEPT !.rows =
                              [r \in 1..Len(ts[t]) |->
                                  [c \in 1..Len(ts[t][r]) |->
                                      [k \in 1..Len(ts[t][r][c]) |->
                                          ts[t][r][c][k].p]]]]])]

----------------------------------------------------------------------------
(* fill_findings_table *)

ItemMarker == <<"i", "t", "e", "m">>
ObservationMarker == <<"o", "b", "s", "e", "r", "v", "a", "t", "i", "o", "n">>

\* " ".join(cell.text for cell in t.rows[0].cells).lower()
hdr_text(t) ==
    lower(join_with(<<" ">>, [c \in 1..Len(t.rows[1]) |-> cell_text(t.rows[1][c])]))

is_findings_table(t) ==
    /\ Len(t.rows) > 0
    /\ Contains(hdr_text(t), ItemMarker)
    /\ Contains(hdr_text(t), ObservationMarker)

\* a search that keeps the last table with the markers
target_table_last(doc) ==
    IF \E t \in 1..Len(doc.tables) : is_findings_table(doc.tables[t])
    THEN CHOOSE t \in 1..Len(doc.tables) :
             /\ is_findings_table(doc.tables[t])
             /\ \A u \in (t + 1)..Len(doc.tables) : ~is_findings_table(doc.tables[u])
    ELSE 0

\* the index of target_table in doc.tables, 0 when the loop ends without one
target_table(doc) ==
    IF \E t \in 1..Len(doc.tables) : is_findings_table(doc.tables[t])
    THEN CHOOSE t \in 1..Len(doc.tables) :
             /\ is_findings_table(doc.tables[t])
             /\ \A u \in 1..(t - 1) : ~is_findings_table(doc.tables[u])
    ELSE 0

\* a cell of a row made by add_row, and the cell after cell.text = v
blank_cell == Cell(<<Paragraph(<<>>)>>)
written_cell(v) == Cell(<<Paragraph(<<Run(v, "")>>)>>)

\* values with the status upper-cased
finding_values_upper_status(f) ==
    <<get(f, "item", Str(<<>>)), get(f, "observation", Str(<<>>)),
      get(f, "code_or_detail_ref", Str(<<>>)),
      Str(upper(or_empty(get(f, "status", Str(<<>>))))), get(f, "remarks", Str(<<>>))>>

finding_values(f) ==
    <<get(f, "item", Str(<<>>)), get(f, "observation", Str(<<>>)),
      get(f, "code_or_detail_ref", Str(<<>>)), get(f, "status", Str(<<>>)),
      get(f, "remarks", Str(<<>>))>>

\* the number of cells written for f in a row of cols cells: the writes stop
\* at the first value that is not a str (cell.text = v raises TypeError)
cells_written(f, cols) ==
    LET values == finding_values(f)
        n == IF cols < Len(values) THEN cols ELSE Len(values)
        bad == {i \in 1..n : values[i].t # "str"}
    IN  IF bad = {} THEN n ELSE (CHOOSE i \in bad : \A j \in bad : i <= j) - 1

row_raises(f, cols) ==
    \E i \in 1..cols : i <= 5 /\ finding_values(f)[i].t # "str"

\* target_table.add_row() and the writes into its cells
added_row(f, cols) ==
    [i \in 1..cols |->
        IF i <= cells_written(f, cols) THEN written_cell(finding_values(f)[i].v)
        ELSE blank_cell]

\* for f in detailed_findings: the rows added from finding k on, up to and
\* with the row at which a write raises
RECURSIVE added_rows(_, _, _)
added_rows(detailed_findings, k, cols) ==
    IF k > Len(detailed_findings) THEN <<>>
    ELSE IF row_raises(detailed_findings[k], cols)
         THEN <<added_row(detailed_findings[k], cols)>>
         ELSE <<added_row(detailed_findings[k], cols)>>
              \o added_rows(detailed_findings, k + 1, cols)

\* the document after the call, returned or left behind by an exception
fill_findings_table(doc, detailed_findings) ==
    LET t == target_table(doc)
    IN  IF Len(doc.tables) = 0 \/ t = 0 THEN doc
        ELSE [doc EXCEPT !.tables[t].rows =
                  <<doc.tables[t].rows[1]>>
                  \o added_rows(detailed_findings, 1, doc.tables[t].cols)]

----------------------------------------------------------------------------
(* Embedding of the attachment images *)

\* parts of a data URL and sample base64 payloads
DataImage == "data:image/"
Base64Marker == ";base64,"
PngData == "base64 of a PNG file"
JpegData == "base64 of a JPEG file"
TextData == "base64 of bytes that are no image"
BadPadding == "base64 with incorrect padding"

DataUrl(media, data) == Str(<<DataImage, media, Base64Marker>> \o data)

\* re.match(r"^data:image/(png|jpeg);base64,(.+)$", data_url) finds a match
re_match(data_url) ==
    /\ Len(data_url) >= 4
    /\ data_url[1] = DataImage
    /\ data_url[2] \in {"png", "jpeg"}
    /\ data_url[3] = Base64Marker

\* m.group(2)
group2(data_url) == SubSeq(data_url, 4, Len(data_url))

\* base64.b64decode raises binascii.Error
b64decode_raises(data) == \E j \in 1..Len(data) : data[j] = BadPadding

\* the picture reader recognises the decoded bytes by their first bytes
is_image(img_bytes) == Len(img_bytes) > 0 /\ img_bytes[1] \in {PngData, JpegData}

PictureWidth == "Inches(5.5)"

page_break_paragraph ==
    Paragraph(<<[text |-> <<>>, fmt |-> "", inline |-> <<"break", "page">>]>>)
heading_paragraph == Paragraph(<<Run(<<"Photo Attachments">>, "")>>)
caption_paragraph(idx) == Paragraph(<<Run(<<"Photo ">> \o str(idx) \o <<":">>, "")>>)
picture_paragraph(img_bytes) ==
    Paragraph(<<[text |-> <<>>, fmt |-> "",
                 inline |-> <<"picture", PictureWidth>> \o img_bytes]>>)
\* doc.add_picture adds a paragraph with a run before it reads the image
failed_picture_paragraph == Paragraph(<<Run(<<>>, "")>>)

\* the paragraphs one turn of the loop appends; an exception ends the turn
embedded(idx, data_url) ==
    IF data_url.t # "str" THEN <<>>
    ELSE IF ~re_match(data_url.v) THEN <<>>
    ELSE IF b64decode_raises(group2(data_url.v)) THEN <<>>
    ELSE IF is_image(group2(data_url.v))
         THEN <<caption_paragraph(idx), picture_paragraph(group2(data_url.v))>>
         ELSE <<caption_paragraph(idx), failed_picture_paragraph>>

\* a loop that the first failing image ends
RECURSIVE embed_from_until_failure(_, _)
embed_from_until_failure(attachments_images, idx) ==
    IF idx > Len(attachments_images) THEN <<>>
    ELSE IF Len(embedded(idx, attachments_images[idx])) = 2
            /\ embedded(idx, attachments_images[idx])[2] # failed_picture_paragraph
         THEN embedded(idx, attachments_images[idx])
              \o embed_from_until_failure(attachments_images, idx + 1)
         ELSE embedded(idx, attachments_images[idx])

\* for idx, data_url in enumerate(attachments_images, start=1)
RECURSIVE embed_from(_, _)
embed_from(attachments_images, idx) ==
    IF idx > Len(attachments_images) THEN <<>>
    ELSE embedded(idx, attachments_images[idx]) \o embed_from(attachments_images, idx + 1)

embed_images(doc, attachments_images) ==
    IF Len(attachments_images) = 0 THEN doc
    ELSE [doc EXCEPT !.paragraphs =
              @ \o <<page_break_paragraph, heading_paragraph>>
                \o embed_from(attachments_images, 1)]

----------------------------------------------------------------------------
(* export_report_docx *)

\* what the server answers when an exception no handler catches leaves the code
InternalServerError == HTTPException(500, <<"Internal Server Error">>)

\* a template file that is no .docx package; the text is the message of the
\* exception python-docx raises on it
CorruptFile == [package_error |-> <<"File is not a zip file">>]

\* a loader that takes an unreadable file for an empty document
load_document_lenient(file) ==
    IF "package_error" \in DOMAIN file
    THEN [status |-> "ok", doc |-> EmptyDocument]
    ELSE [status |-> "ok", doc |-> file]

\* lines 795-800: doc = Document(template_path), any exception turned into
\* HTTPException(500, f"Error loading DOCX template: {e}")
load_document(file) ==
    IF "package_error" \in DOMAIN file
    THEN HTTPException(500, <<"Error loading DOCX template: ">> \o file.package_error)
    ELSE [status |-> "ok", doc |-> file]

\* an exception leaves the handler: the answer, and the record object
\* (payload.report_data, changed in place) as it is at that moment
raised(exception, rd) ==
    [status |-> "error", status_code |-> exception.status_code,
     detail |-> exception.detail, rd |-> rd]

InspectionReport ==
    <<"i","n","s","p","e","c","t","i","o","n","_","r","e","p","o","r","t">>

\* lines 937-938: safe_name and filename
filename(rd) ==
    slugify_trade(Or(get(rd, "project_name", None), Str(InspectionReport))) \o DocxSuffix

\* document steps in which the findings table is filled before the
\* placeholders are replaced
assemble_document_table_first(doc, replacements, detailed_findings, attachments_images) ==
    LET doc1 == IF Len(detailed_findings) > 0
                THEN fill_findings_table(doc, detailed_findings)
                ELSE doc
        replaced == replace_placeholders_everywhere(doc1, replacements)
    IN  [raised |-> replaced.raised,
         doc |-> embed_images(replaced.doc, attachments_images)]

\* lines 908-931, the steps on the loaded document in their order:
\* replace_placeholders_everywhere, fill_findings_table (only with findings),
\* the attachment images.  An exception of replace_placeholders_everywhere is
\* not caught, one of fill_findings_table is
assemble_document(doc, replacements, detailed_findings, attachments_images) ==
    LET replaced == replace_placeholders_everywhere(doc, replacements)
        doc2 == IF Len(detailed_findings) > 0
                THEN fill_findings_table(replaced.doc, detailed_findings)
                ELSE replaced.doc
    IN  [raised |-> replaced.raised,
         doc |-> embed_images(doc2, attachments_images)]

\* the handler: resolution, load, derived fields, placeholder map, the steps
\* on the document, filename
export_report_docx(payload) ==
    LET rd == payload.report_data
        company == Or(payload.company, get(rd, "company", None))
        trade == get(rd, "trade", Str(GeneralTrade))
        template == get_template_for_trade(trade, company)
        loaded == load_document(template_doc)
        detailed_findings == list_or_empty(rd, "detailed_findings")
        rd1 == augment_deficiencies(rd, detailed_findings)
        rd2 == augment_summary(rd1, detailed_findings)
        rd3 == augment_observations(rd2, detailed_findings)
        replacements == build_replacements(rd3)
        assembled == assemble_document(loaded.doc, replacements, detailed_findings,
                                       list_or_empty(rd3, "attachments_images"))
    IN  IF template.status = "error" THEN raised(template, rd)
        ELSE IF loaded.status = "error" THEN raised(loaded, rd)
        ELSE IF assembled.raised THEN raised(InternalServerError, rd3)
        ELSE [status |-> "ok",
              template_path |-> template.path,
              rd |-> rd3,
              replacements |-> replacements,
              doc |-> assembled.doc,
              filename |-> filename(rd3)]

----------------------------------------------------------------------------
(* Inputs of the export specification *)

FindingAccepted ==
    [item |-> Str(<<"i1">>), observation |-> Str(<<"o1">>),
     code_or_detail_ref |-> Str(<<"c1">>), status |-> Str(ACCEPTED),
     remarks |-> Str(<<"r1">>)]
FindingRejected ==
    [item |-> Str(<<"i2">>), observation |-> Str(<<"o2">>),
     code_or_detail_ref |-> Absent, status |-> Str(<<"R", "E", "J", "E", "C", "T", "E", "D">>),
     remarks |-> Absent]
\* no observation text: the item stands in for it
FindingOpen ==
    [item |-> Str(<<"i3">>), observation |-> Str(<<>>),
     code_or_detail_ref |-> Str(<<"c3">>), status |-> Str(<<"O", "P", "E", "N">>),
     remarks |-> Str(<<"r3">>)]
\* a lower-case status and no texts
FindingLowerAccepted ==
    [item |-> Absent, observation |-> Absent,
     code_or_detail_ref |-> Absent, status |-> Str(<<"a", "c", "c", "e", "p", "t", "e", "d">>),
     remarks |-> Str(<<"r4">>)]
\* null status and observation
FindingNoStatus ==
    [item |-> Str(<<"i5">>), observation |-> None,
     code_or_detail_ref |-> Absent, status |-> None,
     remarks |-> Absent]

FindingSamples ==
    {FindingAccepted, FindingRejected, FindingOpen, FindingLowerAccepted, FindingNoStatus}

RECURSIVE SeqsOfLen(_, _)
SeqsOfLen(S, n) ==
    IF n = 0 THEN {<<>>}
    ELSE {<<x>> \o t : x \in S, t \in SeqsOfLen(S, n - 1)}

FindingLists == UNION {SeqsOfLen(FindingSamples, n) : n \in 0..MaxFindings}

CallerDeficiency == [no |-> Str(<<"7">>), text |-> Str(<<"caller text">>)]
CallerObservation ==
    [general_location |-> Str(<<"g">>), specific_location |-> Str(<<"s">>),
     system_or_element |-> Str(<<"e">>), su |-> Str(<<"S">>), remarks |-> Absent]

DeficienciesInputs == {Absent, None, List(<<>>), List(<<CallerDeficiency>>)}
SummaryInputs == {Absent, Str(<<>>), Str(<<"caller summary">>)}
ObservationsInputs == {Absent, List(<<>>), List(<<CallerObservation>>)}
AreaInputs == {Absent, Str(<<"area">>)}
TradeInputs == {Absent, Str(<<"X">>)}

Payload(trade, area, findings, defs, summary, obs) ==
    [company |-> None,
     report_data |->
         [trade |-> trade,
          area_inspected |-> area,
          detailed_findings |-> List(findings),
          deficiencies |-> defs,
          deficiencies_summary |-> summary,
          observations |-> obs]]

\* a template of one paragraph that shows the deficiencies summary
SummaryTemplate ==
    Document(<<Paragraph(<<Run(scalar_token("DEFICIENCIES_SUMMARY"), "")>>)>>, <<>>)

\* every finding list with the fields that steer the derivation varied
IsCorePayload(payload) ==
    \E findings \in FindingLists,
       defs \in {Absent, List(<<>>), List(<<CallerDeficiency>>)},
       obs \in {Absent, List(<<CallerObservation>>)} :
        payload = Payload(Str(<<"X">>), Str(<<"area">>), findings, defs, Absent, obs)

\* every combination of all fields on the lists of at most one finding
IsEnvelopePayload(payload) ==
    \E trade \in TradeInputs, area \in AreaInputs,
       findings \in SeqsOfLen(FindingSamples, 0) \cup SeqsOfLen(FindingSamples, 1),
       defs \in DeficienciesInputs, summary \in SummaryInputs,
       obs \in ObservationsInputs :
        payload = Payload(trade, area, findings, defs, summary, obs)

----------------------------------------------------------------------------
(* Export: action and specification *)

\* the handler, applied to the request that has arrived (and not in a run
\* in which a document function is called on its own)
Export ==
    /\ request # NoRequest
    /\ response = NoResponse
    /\ applied = NoApplied
    /\ response' = export_report_docx(request)
    /\ UNCHANGED <<fs, call, slug_in, slug_out, request, template_doc, applied, uploads, files>>

InitExport ==
    /\ fs = {global_candidate(slugify_trade(Str(<<"X">>)))}
    /\ call = NoCall
    /\ slug_in = None
    /\ slug_out = NoSlugs
    /\ (IsCorePayload(request) \/ IsEnvelopePayload(request))
    /\ response = NoResponse
    /\ template_doc = SummaryTemplate
    /\ applied = NoApplied
    /\ uploads = <<>>
    /\ files = NoFiles

NextExport == Export

SpecExport == InitExport /\ [][NextExport]_vars

----------------------------------------------------------------------------
(* Inputs of the substitution specification: template paragraphs, records  *)

MaxParagraphs == 1

tok(name) == scalar_token(name)
itok(prefix, i, suffix) == indexed_token(prefix, i, suffix)

\* one run, a scalar token twice and another once
ParagraphTwice ==
    Paragraph(<<Run(<<"Project ">> \o tok("PROJECT_NAME") \o <<" / ">>
                    \o tok("PROJECT_NAME") \o <<" ">> \o tok("TRADE"), "normal")>>)
\* a scalar token split over three runs of different formatting
ParagraphSplit ==
    Paragraph(<<Run(<<"Re: ", "{{">>, "bold"), Run(<<"PROJECT_NAME">>, "italic"),
                Run(<<"}}", " end">>, "normal")>>)
\* a scalar token no sample record has, in the second run
ParagraphConclusion ==
    Paragraph(<<Run(<<"Conclusion: ">>, "bold"), Run(tok("CONCLUSION"), "normal")>>)
\* indexed tokens of every group, at the first slot, the cap and in between
ParagraphIndexed ==
    Paragraph(<<Run(itok("DEF_", 1, "_NO") \o <<". ">> \o itok("DEF_", 1, "_TEXT")
                    \o itok("DEF_", 5, "_TEXT")
                    \o itok("PHOTO_", 1, "_TITLE") \o itok("PHOTO_", 3, "_NOTE")
                    \o itok("PREV_DEF_", 1, "_NO") \o itok("PREV_DEF_", 3, "_RESOLUTION")
                    \o itok("OBS_", 10, "_SU"), "normal")>>)
\* the five tokens of the last observation slot
ParagraphLastObs ==
    Paragraph(<<Run(itok("OBS_", 15, "_GENERAL") \o itok("OBS_", 15, "_SPECIFIC")
                    \o itok("OBS_", 15, "_SYSTEM") \o itok("OBS_", 15, "_SU")
                    \o itok("OBS_", 15, "_REMARKS"), "normal")>>)

NotInCatalog == tok("NOT_IN_CATALOG")
PastCapTokens ==
    {itok("DEF_", 6, "_TEXT"), itok("OBS_", 16, "_GENERAL"),
     itok("PHOTO_", 4, "_TITLE"), itok("PREV_DEF_", 4, "_NO")}
UnmappedTokens == {NotInCatalog} \cup PastCapTokens

\* tokens that are not in the catalog, next to one that is
ParagraphUnmapped ==
    Paragraph(<<Run(NotInCatalog \o <<" ">> \o itok("DEF_", 6, "_TEXT")
                    \o itok("OBS_", 16, "_GENERAL") \o tok("TRADE")
                    \o itok("PHOTO_", 4, "_TITLE") \o itok("PREV_DEF_", 4, "_NO"),
                    "normal")>>)
\* no token, two runs
ParagraphPlain == Paragraph(<<Run(<<"Inspection ">>, "bold"), Run(<<"report">>, "normal")>>)

ParagraphSamples ==
    {ParagraphTwice, ParagraphSplit, ParagraphConclusion, ParagraphIndexed,
     ParagraphLastObs, ParagraphUnmapped, ParagraphPlain}

\* a table that is no findings table, with tokens in its cells
CellTable ==
    Table(2, << <<Cell(<<ParagraphTwice>>), Cell(<<ParagraphSplit, ParagraphIndexed>>)>>,
                <<Cell(<<ParagraphUnmapped>>), Cell(<<ParagraphConclusion>>)>> >>)

IsSubstDocument(doc) ==
    \E n \in 0..MaxParagraphs :
    \E paragraphs \in SeqsOfLen(ParagraphSamples, n), tables \in {<<>>, <<CellTable>>} :
        doc = Document(paragraphs, tables)

Deficiency(n) == [no |-> Str(str(n)), text |-> Str(<<"deficiency ">> \o str(n))]
Observation(n) ==
    [general_location |-> Str(<<"floor ">> \o str(n)), specific_location |-> Absent,
     system_or_element |-> Str(<<"element ">> \o str(n)), su |-> Str(<<"S">>),
     remarks |-> Str(<<"remark ">> \o str(n))]
Photo(n) == [title |-> Str(<<"photo ">> \o str(n)), note |-> Absent]

\* the record of the samples: the fields the templates show and the fields
\* the augmentation reads
Record(project_name, trade, photos, deficiencies, prev_defs, observations) ==
    [project_name |-> project_name, trade |-> trade, conclusion |-> Absent,
     detailed_findings |-> Absent, deficiencies_summary |-> Absent,
     photos |-> photos, deficiencies |-> deficiencies,
     previous_deficiencies_resolved |-> prev_defs, observations |-> observations]

\* more photos, deficiencies and observations than there are slots
RecordFull ==
    Record(Str(<<"Tower">>), Str(<<"Roofing">>),
           List([n \in 1..(PHOTO_CAP + 1) |-> Photo(n)]),
           List([n \in 1..(DEF_CAP + 1) |-> Deficiency(n)]),
           List(<<[no |-> Str(<<"1">>), resolution |-> Str(<<"fixed">>)]>>),
           List([n \in 1..(OBS_CAP + 1) |-> Observation(n)]))
\* ten observations, one deficiency, nothing else
RecordSparse ==
    Record(Absent, Absent, Absent, List(<<Deficiency(1)>>), Absent,
           List([n \in 1..10 |-> Observation(n)]))
\* values that hold the text of catalog tokens: of one that comes later in the
\* placeholder map (project_name, the text of the first deficiency) and of one
\* that comes earlier (trade)
RecordTokens ==
    Record(Str(tok("CONCLUSION")), Str(tok("PROJECT_NAME")), Absent,
           List(<<[no |-> Str(<<"1">>), text |-> Str(itok("DEF_", 5, "_TEXT"))],
                  Deficiency(2), Deficiency(3), Deficiency(4), Deficiency(5)>>),
           Absent, List(<<Observation(1)>>))

\* a JSON number
Number(n) == [t |-> "int", v |-> n]
\* a null project name
RecordNull ==
    Record(None, Absent, Absent, List(<<Deficiency(1)>>), Absent,
           List(<<Observation(1)>>))
\* a deficiency whose number is a JSON number
RecordNumber ==
    Record(Absent, Absent, Absent, List(<<[no |-> Number(1), text |-> Str(<<"deficiency 1">>)]>>),
           Absent, List(<<Observation(1)>>))

RecordSamples == {RecordFull, RecordSparse, RecordTokens, RecordNull, RecordNumber}

----------------------------------------------------------------------------
(* Substitution: actions and specification *)

\* replace_placeholders_everywhere called on its own, outside a request: on the
\* template first and then on its own result, with the placeholder map of the
\* record
Substitute ==
    /\ request # NoRequest
    /\ response = NoResponse
    /\ applied.op \in {"none", "replace"}
    /\ LET doc == IF applied.op = "none" THEN template_doc ELSE applied.doc
           replaced == replace_placeholders_everywhere(
                           doc, build_replacements(request.report_data))
       IN  /\ applied.op = "replace" => applied.calls < 2
           /\ ~replaced.raised
           /\ applied' = [op |-> "replace",
                          calls |-> IF applied.op = "none" THEN 1 ELSE applied.calls + 1,
                          before |-> doc,
                          doc |-> replaced.doc]
    /\ UNCHANGED <<fs, call, slug_in, slug_out, request, response, template_doc, uploads, files>>

InitSubst ==
    /\ fs = {DEFAULT_TEMPLATE_PATH}
    /\ call = NoCall
    /\ slug_in = None
    /\ slug_out = NoSlugs
    /\ \E rd \in RecordSamples : request = [company |-> None, report_data |-> rd]
    /\ response = NoResponse
    /\ IsSubstDocument(template_doc)
    /\ applied = NoApplied
    /\ uploads = <<>>
    /\ files = NoFiles

NextSubst == Export \/ Substitute

SpecSubst == InitSubst /\ [][NextSubst]_vars

----------------------------------------------------------------------------
(* Inputs of the findings-table specification: templates and finding lists *)

MaxTables == 2
ManyFindings == 20

\* a cell of one paragraph of one run
TextCell(text) == Cell(<<Paragraph(<<Run(text, "normal")>>)>>)

\* a shipped sample row of the template
SampleRow(cols) == [c \in 1..cols |-> TextCell(<<"sample">>)]

\* five columns under the usual header, two shipped data rows
FindingsHeader ==
    <<TextCell(<<"I", "t", "e", "m">>),
       TextCell(<<"O", "b", "s", "e", "r", "v", "a", "t", "i", "o", "n">>),
       TextCell(<<"C", "o", "d", "e", " ", "R", "e", "f">>),
       TextCell(<<"S", "t", "a", "t", "u", "s">>),
       TextCell(<<"R", "e", "m", "a", "r", "k", "s">>)>>
TableFindings == Table(5, <<FindingsHeader, SampleRow(5), SampleRow(5)>>)
\* both markers in upper case, two columns, no shipped row
TableNarrow ==
    Table(2, << <<TextCell(<<"I", "T", "E", "M">>),
                  TextCell(<<"O", "B", "S", "E", "R", "V", "A", "T", "I", "O", "N">>)>> >>)
\* six columns, both markers inside longer words, one shipped row
TableWide ==
    Table(6, <<<<TextCell(<<"L", "i", "n", "e", " ", "i", "t", "e", "m", "s">>),
             TextCell(<<"O", "b", "s", "e", "r", "v", "a", "t", "i", "o", "n", "s">>),
             TextCell(<<"R", "e", "f">>),
             TextCell(<<"S", "t", "a", "t", "u", "s">>),
             TextCell(<<"R", "e", "m", "a", "r", "k", "s">>),
             TextCell(<<"I", "n", "i", "t", "i", "a", "l", "s">>)>>, SampleRow(6)>>)
\* one marker only
TableItemOnly ==
    Table(2, <<<<TextCell(<<"I", "t", "e", "m">>), TextCell(<<"Q", "t", "y">>)>>, SampleRow(2)>>)
\* "item" only across the boundary of the first two cells
TableSplitMarker ==
    Table(2, <<<<TextCell(<<"U", "n", "i", "t">>),
             TextCell(<<"E", "m", "e", "r", "g", "e", "n", "c", "y", " ", "o", "b", "s", "e", "r", "v", "a", "t", "i", "o", "n">>)>>, SampleRow(2)>>)
\* no row at all
TableNoRows == Table(2, <<>>)

TableSamples ==
    {TableFindings, TableNarrow, TableWide, TableItemOnly, TableSplitMarker,
     TableNoRows}

IsTableDocument(doc) ==
    \E n \in 0..MaxTables : \E tables \in SeqsOfLen(TableSamples, n) :
        doc = Document(<<>>, tables)

\* a status outside ACCEPTED / REJECTED / OPEN, mixed case
FindingOtherStatus ==
    [item |-> Str(<<"i6">>), observation |-> Str(<<"o6">>),
     code_or_detail_ref |-> Str(<<"c6">>), status |-> Str(<<"N", "/", "a">>),
     remarks |-> Str(<<"r6">>)]

TableFindingSamples == <<FindingAccepted, FindingRejected, FindingOtherStatus>>

\* n findings: the samples in turn, from the sample at start on
FindingCycle(n, start) ==
    [k \in 1..n |->
        TableFindingSamples[((start + k - 2) % Len(TableFindingSamples)) + 1]]

\* no finding, each sample alone, each pair of neighbours, and many findings
TableFindingLists ==
    {FindingCycle(n, start) : n \in {1, 2}, start \in 1..Len(TableFindingSamples)}
    \cup {<<>>, FindingCycle(ManyFindings, 1)}

----------------------------------------------------------------------------
(* Findings table: actions and specification *)

\* fill_findings_table called on its own, outside a request, on the template
FillFindingsTable ==
    /\ request # NoRequest
    /\ response = NoResponse
    /\ applied = NoApplied
    /\ applied' = [op |-> "fill",
                   doc |-> fill_findings_table(template_doc,
                               list_or_empty(request.report_data, "detailed_findings"))]
    /\ UNCHANGED <<fs, call, slug_in, slug_out, request, response, template_doc, uploads, files>>

InitTable ==
    /\ fs = {DEFAULT_TEMPLATE_PATH}
    /\ call = NoCall
    /\ slug_in = None
    /\ slug_out = NoSlugs
    /\ \E findings \in TableFindingLists :
           request = Payload(Absent, Absent, findings, Absent, Absent, Absent)
    /\ response = NoResponse
    /\ IsTableDocument(template_doc)
    /\ applied = NoApplied
    /\ uploads = <<>>
    /\ files = NoFiles

NextTable == Export \/ FillFindingsTable

SpecTable == InitTable /\ [][NextTable]_vars

----------------------------------------------------------------------------
(* Inputs of the image specification: attachment lists *)

MaxImages == 3

ValidPng == DataUrl("png", <<PngData>>)
ValidJpeg == DataUrl("jpeg", <<JpegData>>)
\* base64 that decodes to bytes no picture reader recognises
CorruptBytes == DataUrl("png", <<TextData>>)
\* base64 that does not decode
BadBase64 == DataUrl("jpeg", <<BadPadding>>)
\* a media type the pattern does not accept
GifUrl == DataUrl("gif", <<TextData>>)
\* no data URL at all
PlainUrl == Str(<<"http://host/photo.png">>)

ImageSamples == {ValidPng, ValidJpeg, CorruptBytes, BadBase64, GifUrl, PlainUrl, None}

ImageLists == UNION {SeqsOfLen(ImageSamples, n) : n \in 0..MaxImages}

ImagePayload(attachments_images) ==
    [company |-> None,
     report_data |->
         [detailed_findings |-> Absent, deficiencies |-> Absent,
          deficiencies_summary |-> Absent, observations |-> Absent,
          attachments_images |-> attachments_images]]

----------------------------------------------------------------------------
(* Images: specification *)

InitImages ==
    /\ fs = {DEFAULT_TEMPLATE_PATH}
    /\ call = NoCall
    /\ slug_in = None
    /\ slug_out = NoSlugs
    /\ \/ \E images \in ImageLists : request = ImagePayload(List(images))
       \/ request = ImagePayload(Absent)
       \/ request = ImagePayload(None)
    /\ response = NoResponse
    /\ template_doc = SummaryTemplate
    /\ applied = NoApplied
    /\ uploads = <<>>
    /\ files = NoFiles

NextImages == Export

SpecImages == InitImages /\ [][NextImages]_vars

----------------------------------------------------------------------------
(* Resolution, load and filename: a store with or without the default      *)
(* template, a template file that is or is not a document, project names   *)

MaxProjectNameLen == 2

ProjectNames ==
    {Absent, None} \cup {Str(n) : n \in Texts(SlugAlphabet, MaxProjectNameLen)}

LoadPayload(project_name, findings) ==
    [company |-> None,
     report_data |->
         [project_name |-> project_name,
          detailed_findings |-> List(findings), deficiencies |-> Absent,
          deficiencies_summary |-> Absent, observations |-> Absent]]

InitLoad ==
    /\ fs \in {{}, {DEFAULT_TEMPLATE_PATH}}
    /\ call = NoCall
    /\ slug_in = None
    /\ slug_out = NoSlugs
    /\ \E project_name \in ProjectNames, findings \in {<<>>, <<FindingRejected>>} :
           request = LoadPayload(project_name, findings)
    /\ response = NoResponse
    /\ template_doc \in {SummaryTemplate, CorruptFile}
    /\ applied = NoApplied
    /\ uploads = <<>>
    /\ files = NoFiles

NextLoad == Export

SpecLoad == InitLoad /\ [][NextLoad]_vars

----------------------------------------------------------------------------
(* The whole assembly, once and again: templates that show the derived     *)
(* fields and hold tables, records whose values hold token and marker text *)

\* the derived fields, shown in one paragraph
DerivedParagraph ==
    Paragraph(<<Run(<<"Summary: ">> \o tok("DEFICIENCIES_SUMMARY")
                    \o <<" First: ">> \o itok("DEF_", 1, "_TEXT")
                    \o <<" Status: ">> \o itok("OBS_", 1, "_SU")
                    \o <<" / ">> \o itok("OBS_", 2, "_SU"), "normal")>>)

\* a table whose first row shows the area inspected; the tables of a template
\* are different tables
TableTokenHeader ==
    Table(2, << <<TextCell(tok("AREA_INSPECTED")), TextCell(<<"N", "o", "t", "e", "s">>)>>,
                SampleRow(2)>>)

AssemblyTables == {TableTokenHeader, TableFindings, TableItemOnly}

IsAssemblyDocument(doc) ==
    \E n \in 0..MaxTables : \E tables \in SeqsOfLen(AssemblyTables, n) :
        /\ \A i, j \in 1..n : tables[i] = tables[j] => i = j
        /\ doc = Document(<<DerivedParagraph>>, tables)

\* an area whose name holds both header markers
MarkerArea ==
    Str(<<"I", "t", "e", "m", " ", "o", "b", "s", "e", "r", "v", "a", "t", "i", "o", "n">>)
PlainArea == Str(<<"r", "o", "o", "f">>)

\* a finding whose texts are the text of catalog tokens
FindingTokenText ==
    [item |-> Str(tok("TRADE")), observation |-> Str(<<"o7">>),
     code_or_detail_ref |-> Absent, status |-> Str(<<"O", "P", "E", "N">>),
     remarks |-> Str(itok("DEF_", 1, "_TEXT"))]

AssemblyFindingLists == {<<>>, <<FindingTokenText>>, <<FindingRejected, FindingTokenText>>}

AssemblyPayload(area, findings, defs, obs, images) ==
    [company |-> None,
     report_data |->
         [trade |-> Str(<<"Roofing">>),
          area_inspected |-> area,
          detailed_findings |-> List(findings),
          deficiencies |-> defs,
          deficiencies_summary |-> Absent,
          observations |-> obs,
          attachments_images |-> images]]

IsAssemblyPayload(payload) ==
    \E area \in {Absent, PlainArea, MarkerArea},
       findings \in AssemblyFindingLists,
       defs \in {Absent, List(<<CallerDeficiency>>)},
       obs \in {Absent, List(<<>>)},
       images \in {Absent, List(<<ValidPng>>)} :
        payload = AssemblyPayload(area, findings, defs, obs, images)

\* a second request after the first was answered: with an equal record, or
\* with the record object the first assembly has left
Reassemble ==
    /\ response # NoResponse
    /\ applied = NoApplied
    /\ \E again \in {request, [request EXCEPT !.report_data = response.rd]} :
           applied' = [op |-> "export", request |-> again,
                       response |-> export_report_docx(again)]
    /\ UNCHANGED <<fs, call, slug_in, slug_out, request, response, template_doc, uploads, files>>

InitAssembly ==
    /\ fs = {DEFAULT_TEMPLATE_PATH}
    /\ call = NoCall
    /\ slug_in = None
    /\ slug_out = NoSlugs
    /\ IsAssemblyPayload(request)
    /\ response = NoResponse
    /\ IsAssemblyDocument(template_doc)
    /\ applied = NoApplied
    /\ uploads = <<>>
    /\ files = NoFiles

NextAssembly == Export \/ Reassemble

SpecAssembly == InitAssembly /\ [][NextAssembly]_vars

----------------------------------------------------------------------------
(* Uploads that overlap: requests arrive while others wait for their file  *)

MaxUploads == 2

\* file contents of different lengths
UploadContents == {<<"a1", "a2", "a3">>, <<"b1", "b2">>}

\* a request arrives and its handler runs up to the await
UploadReceive ==
    /\ Len(uploads) < MaxUploads
    /\ \E company \in UploadCompanies, trade \in UploadTrades,
          file_name \in UploadFilenames, contents \in UploadContents :
           uploads' = Append(uploads, upload_until_await(company, trade, file_name, contents))
    /\ UNCHANGED <<fs, call, slug_in, slug_out, request, response, template_doc, applied,
                   files>>

\* the event loop resumes one of the suspended handlers
UploadResume ==
    /\ \E i \in DOMAIN uploads :
           /\ uploads[i].pc # "done"
           /\ LET turn == 1 + Cardinality({j \in DOMAIN uploads : uploads[j].wrote > 0})
                  r == upload_after_await(uploads[i], files, turn)
              IN  /\ uploads' = [uploads EXCEPT ![i] = r.u]
                  /\ files' = r.files
                  /\ fs' = fs \cup DOMAIN r.files
    /\ UNCHANGED <<call, slug_in, slug_out, request, response, template_doc, applied>>

InitUpload ==
    /\ fs = {}
    /\ call = NoCall
    /\ slug_in = None
    /\ slug_out = NoSlugs
    /\ request = NoRequest
    /\ response = NoResponse
    /\ template_doc = EmptyDocument
    /\ applied = NoApplied
    /\ uploads = <<>>
    /\ files = NoFiles

NextUpload == UploadReceive \/ UploadResume

SpecUpload == InitUpload /\ [][NextUpload]_vars

----------------------------------------------------------------------------
(* Claims on template resolution and upload (specification Spec) *)

Resolved == call.op = "resolve"
ResolveFailed == Resolved /\ call.result.status = "error"

TenantCandidate == company_project_template(slugify_company(call.company))
GlobalCandidate == global_candidate(slugify_trade(call.trade))
TenantExists == IsGiven(call.company) /\ TenantCandidate \in fs
GlobalExists == GlobalCandidate \in fs
DefaultExists == DEFAULT_TEMPLATE_PATH \in fs

DefaultFileName == <<"default_report_template.docx">>

\* C1: get_template_for_trade returns the first existing candidate in the order
\* tenant master template, global trade template, system default: a present tenant
\* template wins whatever else exists, a present global template wins over the
\* default when there is no tenant template, and the default is returned only
\* when neither of the other two exists.
C1_ResolutionOrder ==
    Resolved =>
        /\ TenantExists => call.result = Ok(TenantCandidate)
        /\ (~TenantExists /\ GlobalExists) => call.result = Ok(GlobalCandidate)
        /\ (~TenantExists /\ ~GlobalExists /\ DefaultExists)
               => call.result = Ok(DEFAULT_TEMPLATE_PATH)
        /\ call.result = Ok(DEFAULT_TEMPLATE_PATH) => (~TenantExists /\ ~GlobalExists)

\* C1 witness: the tenant template was returned although the global and the
\* default template both exist.
C1_Witness ==
    /\ Resolved
    /\ TenantExists /\ GlobalExists /\ DefaultExists
    /\ call.result = Ok(TenantCandidate)

\* C2: after upload_report_template(company, trade, file) has completed, a
\* following get_template_for_trade(trade, company) returns the uploaded file's
\* path.
C2_UploadThenResolve ==
    [][(/\ call.op = "upload"
        /\ call.result.status = "ok"
        /\ call'.op = "resolve"
        /\ call'.trade = call.trade
        /\ call'.company = call.company)
       => call'.result = Ok(call.result.path)]_vars

\* C3: get_template_for_trade fails exactly when none of its candidate files
\* exists, and the failure's message names default_report_template.docx.
C3_FailsIffNoCandidate ==
    Resolved =>
        /\ call.result.status = "error"
               <=> (~TenantExists /\ ~GlobalExists /\ ~DefaultExists)
        /\ call.result.status = "error"
               => (call.result.status_code = 500
                   /\ Contains(call.result.detail, DefaultFileName))

\* C3 witness: trade "X", no tenant, nothing in the store: the call failed.
C3_Witness ==
    /\ ResolveFailed
    /\ call.trade = Str(<<"X">>)
    /\ call.company = None
    /\ fs = {}

----------------------------------------------------------------------------
(* Claims on the slug functions (specification SpecSlug) *)

HasLetterOrDigit(x) ==
    \E i \in DOMAIN or_empty(x) :
        or_empty(x)[i] \in Range(LowerAlpha) \cup Range(UpperAlpha) \cup Range(DigitChars)

\* C5 as stated: for every input s, slugify_company(s) equals slugify_trade(s).
C5_SameSlug ==
    slug_out.done => slug_out.company = slug_out.trade

\* C5 as amended: the two slugs are equal exactly for the inputs that hold a
\* letter or a digit; for every other input slugify_trade gives the empty text
\* and slugify_company gives "default".
C5_SameSlugUnlessEmpty ==
    slug_out.done =>
        IF HasLetterOrDigit(slug_in)
        THEN slug_out.company = slug_out.trade /\ slug_out.trade # <<>>
        ELSE slug_out.trade = <<>> /\ slug_out.company = DefaultSlug

\* C5 witness: an input with an upper-case letter and separators, slugged.
C5_Witness ==
    /\ slug_out.done
    /\ slug_in = Str(<<"-", "B", "_">>)
    /\ slug_out.trade = <<"b">>

----------------------------------------------------------------------------
(* Claims on the derived fields (specification SpecExport) *)

Exported == response.status = "ok"
Received == request.report_data
Findings == Received.detailed_findings.v
Augmented == response.rd

\* a finding counts as a deficiency: its status, upper-cased, is non-empty and
\* is not "ACCEPTED"
IsDeficient(f) ==
    LET st == get(f, "status", None)
    IN  st.t = "str" /\ upper(st.v) # <<>> /\ upper(st.v) # ACCEPTED

DeficientPositions == {i \in 1..Len(Findings) : IsDeficient(Findings[i])}

\* the position of the k-th deficient finding
KthDeficient(k) ==
    CHOOSE i \in DeficientPositions : Cardinality({j \in DeficientPositions : j <= i}) = k

\* the observation, or the item when there is no observation text
DeficiencyText(f) ==
    LET o == get(f, "observation", Str(<<>>))
    IN  IF o.t = "str" /\ o.v # <<>> THEN o ELSE get(f, "item", Str(<<>>))

\* the number a decimal numeral stands for
RECURSIVE DecimalValue(_)
DecimalValue(digits) ==
    IF digits = <<>> THEN 0
    ELSE 10 * DecimalValue(SubSeq(digits, 1, Len(digits) - 1))
         + (IndexOf(DigitChars, digits[Len(digits)]) - 1)

\* the deficiencies of the augmented record are the deficient findings, in
\* finding order, numbered 1..k
DeficienciesAreDerived ==
    /\ Augmented.deficiencies.t = "list"
    /\ Len(Augmented.deficiencies.v) = Cardinality(DeficientPositions)
    /\ \A k \in 1..Len(Augmented.deficiencies.v) :
           LET d == Augmented.deficiencies.v[k]
           IN  /\ d.no.t = "str"
               /\ d.no.v # <<>>
               /\ DecimalValue(d.no.v) = k
               /\ d.text = DeficiencyText(Findings[KthDeficient(k)])

\* the DEF_<n> placeholders are filled from the sequence defs
DefPlaceholdersFrom(defs) ==
    \A i \in 1..DEF_CAP :
        /\ lookup(response.replacements, indexed_token("DEF_", i, "_NO"))
               = IF i <= Len(defs) THEN get(defs[i], "no", Str(<<>>)) ELSE Str(<<>>)
        /\ lookup(response.replacements, indexed_token("DEF_", i, "_TEXT"))
               = IF i <= Len(defs) THEN get(defs[i], "text", Str(<<>>)) ELSE Str(<<>>)

\* the OBS_<n> placeholders are filled from the sequence obs
ObsPlaceholdersFrom(obs) ==
    \A i \in 1..OBS_CAP :
        \A j \in 1..Len(OBS_ATTRS) :
            lookup(response.replacements, indexed_token("OBS_", i, OBS_ATTRS[j][1]))
                = IF i <= Len(obs) THEN get(obs[i], OBS_ATTRS[j][2], Str(<<>>))
                  ELSE Str(<<>>)

\* C6: when the record has no deficiencies field (or a null one), the
\* deficiencies are exactly the findings whose upper-cased status is non-empty
\* and not "ACCEPTED", in finding order, numbered 1..k, each with the finding's
\* observation or, if that is empty, its item as text.
C6_DerivedWhenAbsent ==
    (Exported /\ Received.deficiencies.t \in {"absent", "none"})
        => DeficienciesAreDerived

\* C6 witness: statuses ACCEPTED, REJECTED, OPEN, ACCEPTED gave two entries,
\* numbered 1 and 2, from the 2nd and the 3rd finding.
C6_Witness ==
    /\ Exported
    /\ Received.deficiencies = Absent
    /\ Findings = <<FindingAccepted, FindingRejected, FindingOpen, FindingAccepted>>
    /\ Augmented.deficiencies =
           List(<< [no |-> Str(<<"1">>), text |-> Str(<<"o2">>)],
                   [no |-> Str(<<"2">>), text |-> Str(<<"i3">>)] >>)

\* C7: a record whose deficiencies field is present but an empty sequence ends
\* with the derived deficiency entries, and the DEF_<n> placeholders filled from
\* them, the same as if the field had been absent.
C7_DerivedWhenEmpty ==
    (Exported /\ Received.deficiencies = List(<<>>))
        => (DeficienciesAreDerived /\ DefPlaceholdersFrom(Augmented.deficiencies.v))

\* C8: a non-empty deficiencies sequence, a non-empty observations sequence and
\* a non-empty deficiencies_summary that the caller supplied are the same after
\* assembly, and their placeholders are filled from the caller's values.
C8_CallerValuesKept ==
    Exported =>
        /\ Truthy(Received.deficiencies) =>
               /\ Augmented.deficiencies = Received.deficiencies
               /\ DefPlaceholdersFrom(Received.deficiencies.v)
        /\ Truthy(Received.observations) =>
               /\ Augmented.observations = Received.observations
               /\ ObsPlaceholdersFrom(Received.observations.v)
        /\ Truthy(Received.deficiencies_summary) =>
               /\ Augmented.deficiencies_summary = Received.deficiencies_summary
               /\ lookup(response.replacements, scalar_token("DEFICIENCIES_SUMMARY"))
                      = Received.deficiencies_summary

\* C8 witness: all three fields supplied, with findings that would have given
\* other values.
C8_Witness ==
    /\ Exported
    /\ Received.deficiencies = List(<<CallerDeficiency>>)
    /\ Received.observations = List(<<CallerObservation>>)
    /\ Received.deficiencies_summary = Str(<<"caller summary">>)
    /\ Findings = <<FindingRejected>>
    /\ lookup(response.replacements, indexed_token("DEF_", 1, "_TEXT")) = Str(<<"caller text">>)

\* C9: when the caller supplied no deficiencies_summary, it is "Deficiencies
\* noted" if the deficiencies sequence in effect is non-empty and "No
\* deficiencies noted" otherwise.
C9_SummaryFromDeficiencies ==
    (Exported /\ ~Truthy(Received.deficiencies_summary)) =>
        Augmented.deficiencies_summary =
            IF Augmented.deficiencies.t = "list" /\ Augmented.deficiencies.v # <<>>
            THEN Str(<<"Deficiencies noted">>)
            ELSE Str(<<"No deficiencies noted">>)

\* C9 witness: no summary and no deficient finding, but a deficiency supplied
\* by the caller: the summary says deficiencies were noted.
C9_Witness ==
    /\ Exported
    /\ Received.deficiencies_summary = Absent
    /\ Received.deficiencies = List(<<CallerDeficiency>>)
    /\ Findings = <<FindingAccepted, FindingAccepted>>
    /\ Augmented.deficiencies_summary = Str(<<"Deficiencies noted">>)

\* C10: when observations is absent or empty, it is derived as one row per
\* finding in finding order, with general_location the record's area_inspected,
\* specific_location the item, system_or_element the observation, su the status
\* upper-cased and remarks the remarks.
C10_DerivedObservations ==
    (Exported /\ ~Truthy(Received.observations)) =>
        /\ Augmented.observations.t = "list"
        /\ Len(Augmented.observations.v) = Len(Findings)
        /\ \A i \in 1..Len(Findings) :
               LET o == Augmented.observations.v[i]
                   f == Findings[i]
               IN  /\ o.general_location = get(Received, "area_inspected", Str(<<>>))
                   /\ o.specific_location = get(f, "item", Str(<<>>))
                   /\ o.system_or_element = get(f, "observation", Str(<<>>))
                   /\ o.su = Str(upper(or_empty(get(f, "status", None))))
                   /\ o.remarks = get(f, "remarks", Str(<<>>))

\* C10 witness: three findings and no observations gave three rows, the third
\* with the lower-case status upper-cased.
C10_Witness ==
    /\ Exported
    /\ Received.observations = Absent
    /\ Findings = <<FindingRejected, FindingOpen, FindingLowerAccepted>>
    /\ Len(Augmented.observations.v) = 3
    /\ Augmented.observations.v[1].system_or_element = Str(<<"o2">>)
    /\ Augmented.observations.v[3].su = Str(ACCEPTED)
    /\ Augmented.observations.v[3].general_location = Str(<<"area">>)

----------------------------------------------------------------------------
(* Claims on placeholder substitution (specification SpecSubst) *)

\* a paragraph of the template next to the paragraph at the same place of the
\* assembled document: the standalone paragraphs and the paragraphs of the cells
ParagraphPairs(before, after) ==
    {<<before.paragraphs[j], after.paragraphs[j]>> : j \in 1..Len(before.paragraphs)}
    \cup UNION {UNION {UNION {
             {<<before.tables[t].rows[r][c][k], after.tables[t].rows[r][c][k]>> :
                  k \in 1..Len(before.tables[t].rows[r][c])} :
             c \in 1..Len(before.tables[t].rows[r])} :
             r \in 1..Len(before.tables[t].rows)} :
             t \in 1..Len(before.tables)}

ExportedPairs == ParagraphPairs(template_doc, response.doc)

TextOf(v) == IF v.t = "str" THEN v.v ELSE <<>>
ItemsOf(v) == IF v.t = "list" THEN v.v ELSE <<>>

\* the catalog as the specification words it: a scalar token stands for the
\* record's value of its field, an indexed token for the attribute of the i-th
\* element of its sequence; both for the empty text when there is none
ScalarCatalog(rd) ==
    {<<scalar_token(SCALARS[j][1]), TextOf(get(rd, SCALARS[j][2], Str(<<>>)))>> :
         j \in 1..Len(SCALARS)}

GroupCatalog(rd, prefix, key, attrs, cap) ==
    LET items == ItemsOf(get(rd, key, List(<<>>)))
    IN  {<<indexed_token(prefix, i, attrs[a][1]),
           IF Len(items) >= i THEN TextOf(get(items[i], attrs[a][2], Str(<<>>))) ELSE <<>>
         >> : i \in 1..cap, a \in 1..Len(attrs)}

IndexedCatalog(rd) ==
    GroupCatalog(rd, "PHOTO_", "photos", PHOTO_ATTRS, PHOTO_CAP)
    \cup GroupCatalog(rd, "DEF_", "deficiencies", DEF_ATTRS, DEF_CAP)
    \cup GroupCatalog(rd, "PREV_DEF_", "previous_deficiencies_resolved",
                      PREV_DEF_ATTRS, PREV_DEF_CAP)
    \cup GroupCatalog(rd, "OBS_", "observations", OBS_ATTRS, OBS_CAP)

Catalog(rd) == ScalarCatalog(rd) \cup IndexedCatalog(rd)

StartsWith(text, prefix) ==
    Len(prefix) <= Len(text) /\ SubSeq(text, 1, Len(prefix)) = prefix

\* every token of the catalog replaced by its value, each occurrence once:
\* text put in by a replacement is not looked at again
RECURSIVE Simultaneous(_, _)
Simultaneous(text, catalog) ==
    IF text = <<>> THEN <<>>
    ELSE IF Head(text) = "{{" /\ \E e \in catalog : StartsWith(text, e[1])
    THEN LET e == CHOOSE e \in catalog : StartsWith(text, e[1])
         IN  e[2] \o Simultaneous(SubSeq(text, Len(e[1]) + 1, Len(text)), catalog)
    ELSE <<Head(text)>> \o Simultaneous(Tail(text), catalog)

HasTokenOf(text, catalog) == \E e \in catalog : Contains(text, e[1])

\* C11: after the substitution of an assembly, a paragraph of the template that
\* held catalog scalar tokens holds none of them any more, standalone or in a
\* table cell, and its text is the template text with every occurrence of a
\* catalog token replaced by the record's value, the empty text when absent.
C11_ScalarPass ==
    Exported =>
        \A pair \in ExportedPairs :
            LET before == paragraph_text(pair[1])
                after == paragraph_text(pair[2])
            IN  HasTokenOf(before, ScalarCatalog(Augmented)) =>
                    /\ \A e \in ScalarCatalog(Augmented) :
                           Contains(before, e[1]) => ~Contains(after, e[1])
                    /\ after = Simultaneous(before, Catalog(Augmented))

\* C12: after the substitution of an assembly, a paragraph of the template that
\* held indexed tokens of a group, at a slot within the cap of the group, has
\* each replaced by the attribute of the element at that slot of the record's
\* sequence, and by the empty text when the sequence is shorter.
C12_IndexedPass ==
    Exported =>
        \A pair \in ExportedPairs :
            LET before == paragraph_text(pair[1])
                after == paragraph_text(pair[2])
            IN  HasTokenOf(before, IndexedCatalog(Augmented)) =>
                    after = Simultaneous(before, Catalog(Augmented))

\* the number of places at which sub occurs in text
RECURSIVE Count(_, _)
Count(text, sub) ==
    IF Len(text) < Len(sub) THEN 0
    ELSE (IF StartsWith(text, sub) THEN 1 ELSE 0) + Count(Tail(text), sub)

\* C13: a delimited token that is not in the catalog stays in the text: every
\* occurrence of {{NOT_IN_CATALOG}} and of an indexed token one past the cap of
\* its group is still in the paragraph after an assembly, however many elements
\* the record's sequence has.
C13_UnmappedLeftVerbatim ==
    Exported =>
        \A pair \in ExportedPairs : \A token \in UnmappedTokens :
            Count(paragraph_text(pair[2]), token) >= Count(paragraph_text(pair[1]), token)

\* C13 witness: the record has six deficiencies and sixteen observations, and
\* {{NOT_IN_CATALOG}}, {{DEF_6_TEXT}} and {{OBS_16_GENERAL}} are in the assembled
\* paragraph while the catalog token next to them was replaced.
C13_Witness ==
    /\ Exported
    /\ Received = RecordFull
    /\ template_doc.paragraphs = <<ParagraphUnmapped>>
    /\ LET after == paragraph_text(response.doc.paragraphs[1])
       IN  /\ \A token \in UnmappedTokens : Count(after, token) = 1
           /\ ~Contains(after, scalar_token("TRADE"))
           /\ Contains(after, <<"Roofing">>)

\* C14: replace_placeholders_everywhere applied a second time, with the same
\* placeholder map, to the document it has already substituted changes nothing.
C14_SecondPassChangesNothing ==
    (applied.op = "replace" /\ applied.calls = 2) => applied.doc = applied.before

\* the paragraph that holds the whole text of p in a single run
SingleRun(p) == Paragraph(<<Run(paragraph_text(p), "normal")>>)

\* C15: a paragraph in which the substitution of an assembly replaced a token,
\* also one split over several runs, has afterwards as many runs as before
\* with their formatting, the whole substituted text in the first and every
\* other run empty; the text is what the substitution gives for the
\* concatenation of the original runs held in one run.
C15_MultiRunTokens ==
    Exported =>
        \A pair \in ExportedPairs :
            LET p == pair[1]
                q == pair[2]
            IN  HasTokenOf(paragraph_text(p), Range(response.replacements)) =>
                    /\ Len(q.runs) = Len(p.runs)
                    /\ \A j \in 1..Len(q.runs) :
                           /\ q.runs[j].fmt = p.runs[j].fmt
                           /\ j > 1 => q.runs[j].text = <<>>
                    /\ q.runs[1].text = paragraph_text(q)
                    /\ paragraph_text(q) =
                           paragraph_text(
                               _replace_in_paragraph(SingleRun(p), response.replacements).p)

\* C15 witness: the token split over three runs was replaced; the first run
\* holds the text, the second and third are empty and keep their formatting.
C15_Witness ==
    /\ Exported
    /\ Received = RecordFull
    /\ template_doc.paragraphs = <<ParagraphSplit>>
    /\ response.doc.paragraphs[1] =
           Paragraph(<<Run(<<"Re: ", "Tower", " end">>, "bold"), Run(<<>>, "italic"),
                       Run(<<>>, "normal")>>)

----------------------------------------------------------------------------
(* Claims on the findings table (specification SpecTable) *)

\* the first row's cell texts put together with sep between them, lower-cased
HeaderText(t, sep) ==
    lower(join_with(sep, [c \in 1..Len(t.rows[1]) |-> cell_text(t.rows[1][c])]))

\* the tables whose first row, read that way, holds both markers
Qualifying(doc, sep) ==
    {t \in 1..Len(doc.tables) :
         /\ Len(doc.tables[t].rows) > 0
         /\ Contains(HeaderText(doc.tables[t], sep), ItemMarker)
         /\ Contains(HeaderText(doc.tables[t], sep), ObservationMarker)}

First(S) == CHOOSE t \in S : \A u \in S : t <= u

\* after is before with nothing touched but the rows below the first row of
\* the first table of Q, or nothing at all when Q is empty
OnlyFirstModified(before, after, Q) ==
    /\ after.paragraphs = before.paragraphs
    /\ Len(after.tables) = Len(before.tables)
    /\ Q = {} => after = before
    /\ Q # {} =>
           /\ \A t \in 1..Len(before.tables) :
                  t # First(Q) => after.tables[t] = before.tables[t]
           /\ after.tables[First(Q)].cols = before.tables[First(Q)].cols
           /\ after.tables[First(Q)].rows[1] = before.tables[First(Q)].rows[1]

Filled == applied.op = "fill"

\* C16 as stated: fill_findings_table touches only the first table whose first
\* row's cell texts, concatenated and lower-cased, hold both "item" and
\* "observation"; every other table, and the whole document when there is no
\* such table, is as before.
C16_OnlyFirstConcatenated ==
    Filled => OnlyFirstModified(template_doc, applied.doc, Qualifying(template_doc, <<>>))

\* C16 amended: fill_findings_table touches only the first table whose first
\* row's cell texts, joined by single spaces and lower-cased, hold both "item"
\* and "observation"; every other table, and the whole document when there is
\* no such table or no table, is as before.
C16_OnlyFirstJoined ==
    Filled => OnlyFirstModified(template_doc, applied.doc, Qualifying(template_doc, <<" ">>))

\* C16 witness: of two findings tables the first lost its shipped rows and got
\* a row per finding, the second is as it was.
C16_Witness ==
    /\ Filled
    /\ template_doc.tables = <<TableFindings, TableWide>>
    /\ Len(Findings) = 1
    /\ Len(applied.doc.tables[1].rows) = 2
    /\ applied.doc.tables[1].rows[2] # SampleRow(5)
    /\ applied.doc.tables[2] = TableWide

\* the findings table of the template, as the code finds it
TemplateFindingsTables == Qualifying(template_doc, <<" ">>)

\* C17: after an assembly whose template has a findings table, that table has
\* its header row and one data row per finding, for every number of findings
\* from none on and whatever data rows the template shipped with.
C17_RowPerFinding ==
    (Exported /\ TemplateFindingsTables # {}) =>
        Len(response.doc.tables[First(TemplateFindingsTables)].rows) = 1 + Len(Findings)

FindingFields == <<"item", "observation", "code_or_detail_ref", "status", "remarks">>

\* C18: after an assembly the k-th data row of the findings table shows the
\* k-th finding: its cells 1..5, as far as the table has them, hold the
\* finding's item, observation, code_or_detail_ref, status and remarks as given
\* (the empty text for a field the finding lacks), and every further cell is
\* blank.
C18_RowShowsFinding ==
    (Exported /\ TemplateFindingsTables # {}) =>
        LET table == response.doc.tables[First(TemplateFindingsTables)]
        IN  \A k \in 1..Len(Findings) :
                /\ k + 1 <= Len(table.rows)
                /\ Len(table.rows[k + 1]) = table.cols
                /\ \A c \in 1..table.cols :
                       cell_text(table.rows[k + 1][c]) =
                           IF c <= Len(FindingFields)
                           THEN TextOf(get(Findings[k], FindingFields[c], Str(<<>>)))
                           ELSE <<>>

\* C18 witness: two findings in a table of six columns; the second row shows
\* the second finding with its status as given and a blank sixth cell.
C18_Witness ==
    /\ Exported
    /\ template_doc.tables = <<TableWide>>
    /\ Findings = <<FindingRejected, FindingOtherStatus>>
    /\ LET rows == response.doc.tables[1].rows
       IN  /\ Len(rows) = 3
           /\ cell_text(rows[2][1]) = <<"i2">>
           /\ cell_text(rows[3][4]) = <<"N", "/", "a">>
           /\ cell_text(rows[3][6]) = <<>>

----------------------------------------------------------------------------
(* Claims on the attachment images (specification SpecImages) *)

Images == ItemsOf(get(Received, "attachments_images", List(<<>>)))

\* a PNG or JPEG data URL whose base64 payload decodes to an image
IsWellFormed(data_url) ==
    /\ data_url.t = "str"
    /\ Len(data_url.v) = 4
    /\ data_url.v[1] = DataImage
    /\ data_url.v[2] \in {"png", "jpeg"}
    /\ data_url.v[3] = Base64Marker
    /\ data_url.v[4] \in {PngData, JpegData}

IsPicture(p) ==
    Len(p.runs) = 1 /\ p.runs[1].inline # <<>> /\ p.runs[1].inline[1] = "picture"
IsPageBreak(p) ==
    Len(p.runs) = 1 /\ p.runs[1].inline = <<"break", "page">>
IsCaption(p) ==
    /\ Len(p.runs) = 1
    /\ Len(p.runs[1].text) >= 3
    /\ p.runs[1].text[1] = "Photo "
    /\ p.runs[1].text[Len(p.runs[1].text)] = ":"
IsHeading(p) == Len(p.runs) = 1 /\ p.runs[1].text = <<"Photo Attachments">>

\* the image bytes of the pictures of a document, in document order
Pictures(doc) ==
    LET ps == SelectSeq(doc.paragraphs, IsPicture)
    IN  [j \in 1..Len(ps) |-> ps[j].runs[1].inline[3]]

\* the payloads of the well-formed images of the request, in order
WellFormedPayloads ==
    LET ws == SelectSeq(Images, IsWellFormed)
    IN  [j \in 1..Len(ws) |-> ws[j].v[4]]

Captions(doc) == SelectSeq(doc.paragraphs, IsCaption)

C20_CaptionThenPicture ==
    Exported =>
        LET ps == response.doc.paragraphs
        IN  /\ \A j \in 1..Len(ps) :
                   IsCaption(ps[j]) => (j < Len(ps) /\ IsPicture(ps[j + 1]))
            /\ Len(Captions(response.doc)) = Len(Pictures(response.doc))
            /\ Images = <<>> =>
                   \A j \in 1..Len(ps) :
                       ~(IsPageBreak(ps[j]) \/ IsHeading(ps[j])
                         \/ IsCaption(ps[j]) \/ IsPicture(ps[j]))

----------------------------------------------------------------------------
(* Claims on the handler as a whole *)

Answered == response # NoResponse
Failed == response.status = "error"

\* C21: once the template has loaded, no shape of the record makes the
\* assembly fail: whatever field is absent, null or of another type than
\* expected, the handler still returns a document
C21_ShapeNeverFails == Answered => Exported

\* C22: when no template is found, or the file found is no document, the
\* handler answers with an error (for the load, one that carries the cause),
\* returns no document and leaves the record as it was received
C22_FailuresAbort ==
    Answered =>
        /\ fs = {} =>
               /\ Failed
               /\ response.status_code = 500 /\ response.detail = NoTemplateDetail
               /\ "doc" \notin DOMAIN response
               /\ response.rd = Received
        /\ (fs # {} /\ template_doc = CorruptFile) =>
               /\ Failed
               /\ response.status_code = 500
               /\ Contains(response.detail, CorruptFile.package_error)
               /\ "doc" \notin DOMAIN response
               /\ response.rd = Received
        /\ (fs # {} /\ template_doc # CorruptFile) => Exported

\* a template that is found but is no document, and a record the derived
\* fields would have changed
C22_Witness ==
    /\ Failed
    /\ fs = {DEFAULT_TEMPLATE_PATH}
    /\ template_doc = CorruptFile
    /\ Findings = <<FindingRejected>>
    /\ Received.deficiencies = Absent

Reassembled == applied.op = "export"

\* C23: a second assembly of the same template, given an equal record or the
\* record object the first assembly has augmented, returns the same document
\* and the same filename as the first
C23_SameDocumentAgain ==
    Reassembled =>
        /\ applied.response.status = response.status
        /\ Exported =>
               /\ applied.response.doc = response.doc
               /\ applied.response.filename = response.filename

\* the second assembly was given the augmented record, which differs from
\* the record received: derived deficiencies and observations of two findings
C23_Witness ==
    /\ Reassembled
    /\ Exported
    /\ applied.request.report_data = Augmented
    /\ Len(Findings) = 2
    /\ Received.deficiencies = Absent
    /\ Received.observations = Absent
    /\ Len(Augmented.observations.v) = 2
    /\ Len(template_doc.tables) = 2

\* the rows under the first row show the findings of the request as given
ShowsFindings(table) ==
    /\ Len(table.rows) = 1 + Len(Findings)
    /\ \A k \in 1..Len(Findings) : \A c \in 1..table.cols :
           cell_text(table.rows[k + 1][c]) =
               IF c <= Len(FindingFields)
               THEN TextOf(get(Findings[k], FindingFields[c], Str(<<>>)))
               ELSE <<>>

NthText(items, n, attr) ==
    IF Len(items) < n THEN <<>> ELSE TextOf(get(items[n], attr, Str(<<>>)))

\* the derived values as the derivation rules give them for the record received
DerivedDeficiencies ==
    IF get(Received, "deficiencies", None).t = "none"
    THEN [k \in 1..Cardinality(DeficientPositions) |->
              [text |-> DeficiencyText(Findings[KthDeficient(k)])]]
    ELSE Received.deficiencies.v
DerivedSummary ==
    IF Truthy(get(Received, "deficiencies_summary", None))
    THEN Received.deficiencies_summary.v
    ELSE IF DerivedDeficiencies # <<>> THEN <<"Deficiencies noted">>
    ELSE <<"No deficiencies noted">>
DerivedObservations ==
    IF ItemsOf(get(Received, "observations", None)) = <<>>
    THEN [k \in 1..Len(Findings) |->
              [su |-> Str(upper(TextOf(get(Findings[k], "status", None))))]]
    ELSE Received.observations.v

\* C26: the steps run in their order.  The derived fields are complete before
\* the substitution, which fills the summary, deficiency and observation
\* tokens from them; the rows written by the table expansion and the
\* paragraphs written by the image embedding come after it and keep their text
\* as written, token text included
C26_StepsInOrder ==
    Exported =>
        /\ paragraph_text(response.doc.paragraphs[1]) =
               <<"Summary: ">> \o DerivedSummary
               \o <<" First: ">> \o NthText(DerivedDeficiencies, 1, "text")
               \o <<" Status: ">> \o NthText(DerivedObservations, 1, "su")
               \o <<" / ">> \o NthText(DerivedObservations, 2, "su")
        /\ (Findings # <<>> /\ TemplateFindingsTables # {}) =>
               \E t \in 1..Len(response.doc.tables) : ShowsFindings(response.doc.tables[t])
        /\ Images # <<>> =>
               /\ Len(response.doc.paragraphs) = 5
               /\ IsPageBreak(response.doc.paragraphs[2])
               /\ IsHeading(response.doc.paragraphs[3])
               /\ IsCaption(response.doc.paragraphs[4])
               /\ IsPicture(response.doc.paragraphs[5])

\* two findings, everything derived, a findings table and an image: the table
\* row of the second finding shows the token text of its item
C26_Witness ==
    /\ Exported
    /\ Findings = <<FindingRejected, FindingTokenText>>
    /\ Received.deficiencies = Absent
    /\ Received.observations = Absent
    /\ template_doc.tables = <<TableFindings>>
    /\ Images # <<>>
    /\ cell_text(response.doc.tables[1].rows[3][1]) = tok("TRADE")
    /\ Contains(paragraph_text(response.doc.paragraphs[1]), <<"o2">>)

\* the tables of the document that show the findings
Regenerated == {t \in 1..Len(response.doc.tables) : ShowsFindings(response.doc.tables[t])}

\* C29: the table whose rows are regenerated is chosen by the template alone:
\* it is the first table of the template whose first row holds both markers,
\* or none, whatever values the record puts into first rows
C29_TableChosenByTemplate ==
    (Exported /\ Findings # <<>>) =>
        Regenerated = IF TemplateFindingsTables = {} THEN {}
                      ELSE {First(TemplateFindingsTables)}

\* the uploads that have written dest
Writers(dest) == {i \in DOMAIN uploads : uploads[i].dest = dest /\ uploads[i].wrote > 0}
LastWriter(dest) ==
    CHOOSE i \in Writers(dest) : \A j \in Writers(dest) : uploads[j].wrote <= uploads[i].wrote

\* C24: however upload requests for one destination overlap, whenever another
\* handler can run the destination file holds the complete bytes of one
\* upload, the one that wrote last, never a mixture or a part
C24_LastWriterWins ==
    \A dest \in DOMAIN files :
        /\ Writers(dest) # {}
        /\ files[dest] = uploads[LastWriter(dest)].contents

\* two uploads of different files for one destination, the one received
\* second written first
C24_Witness ==
    /\ Len(uploads) = 2
    /\ uploads[1].dest = uploads[2].dest
    /\ uploads[1].contents # uploads[2].contents
    /\ uploads[1].pc = "done" /\ uploads[2].pc = "done"
    /\ uploads[2].wrote = 1 /\ uploads[1].wrote = 2
    /\ Len(uploads[1].contents) < Len(uploads[2].contents)
    /\ files[uploads[1].dest] = uploads[1].contents

DerivedFields == {"deficiencies", "deficiencies_summary", "observations"}

\* the caller left the field out, null or empty
LeftOut(v) == v.t \in {"absent", "none"} \/ v.v = <<>>

\* C25: over a whole call the record object differs from the record received
\* in nothing but deficiencies, deficiencies_summary and observations, and in
\* each of them only when the caller left it absent or empty
C25_OnlyDerivedFieldsChange ==
    Answered =>
        /\ DOMAIN response.rd = DOMAIN Received
        /\ \A k \in DOMAIN Received :
               response.rd[k] # Received[k] => (k \in DerivedFields /\ LeftOut(Received[k]))

\* all three derived fields written, the caller's other fields as given
C25_Witness ==
    /\ Exported
    /\ Len(Findings) = 2
    /\ \A k \in DerivedFields : response.rd[k] # Received[k]
    /\ Received.trade = Str(<<"X">>)
    /\ Received.area_inspected = Str(<<"area">>)
    /\ response.rd.detailed_findings = Received.detailed_findings

----------------------------------------------------------------------------
(* Claims on the slug functions (specification SpecSlug) and the filename *)

SlugChars == Range(LowerAlpha) \cup Range(DigitChars) \cup {"_"}

IsAlnum(c) == lower_char(c) \in Range(LowerAlpha) \cup Range(DigitChars)

\* the maximal runs of letters and digits of s, lower-cased, after the run w
\* that is being read
RECURSIVE Words(_, _)
Words(s, w) ==
    IF s = <<>> THEN (IF w = <<>> THEN <<>> ELSE <<w>>)
    ELSE IF IsAlnum(Head(s)) THEN Words(Tail(s), Append(w, lower_char(Head(s))))
    ELSE (IF w = <<>> THEN <<>> ELSE <<w>>) \o Words(Tail(s), <<>>)

\* the words of the input joined by single separators
Normalized(input) == join_with(<<"_">>, Words(or_empty(input), <<>>))

IsSlug(slug) ==
    /\ \A i \in 1..Len(slug) : slug[i] \in SlugChars
    /\ slug # <<>> => (slug[1] # "_" /\ slug[Len(slug)] # "_")
    /\ \A i \in 1..(Len(slug) - 1) : ~(slug[i] = "_" /\ slug[i + 1] = "_")

Reverse(seq) == [i \in 1..Len(seq) |-> seq[Len(seq) + 1 - i]]

\* C28: the substitution in a paragraph is the simultaneous replacement of all
\* catalog tokens: the text left is the template text with each token
\* replaced once by its value, a value that holds token text staying as it
\* is, and the same text comes out when the map is gone through in the
\* opposite order
C28_SimultaneousSubstitution ==
    Exported =>
        \A pair \in ExportedPairs :
            /\ paragraph_text(pair[2]) =
                   Simultaneous(paragraph_text(pair[1]), Catalog(Augmented))
            /\ replaced_text(pair[1], Reverse(response.replacements)).full_text =
                   paragraph_text(pair[2])

ProjectName == get(Received, "project_name", None)
Stem == SubSeq(response.filename, 1, Len(response.filename) - Len(DocxSuffix))

\* C30: the filename is <stem>.docx with a non-empty stem over a-z, 0-9 and
\* "_": the normalized project name, or "inspection_report" when the project
\* name is absent, empty or without any letter or digit
C30_FilenameSafe ==
    Exported =>
        /\ EndsWith(response.filename, DocxSuffix)
        /\ Stem # <<>>
        /\ \A i \in 1..Len(Stem) : Stem[i] \in SlugChars
        /\ Stem = IF Normalized(ProjectName) # <<>> THEN Normalized(ProjectName)
                  ELSE InspectionReport

====
